---- MODULE Spec2Model ----
(***************************************************************************)
(* A model of @romyapps/usefirestore: the cache-mode resolver of           *)
(* utils.ts (getDocsByMode / getDocByMode) and the write hooks             *)
(* (useAddDocument / useUpdateDocument / useDeleteDocument) with their     *)
(* audit-log pipeline and cache invalidation; the read hooks               *)
(* (useCollection / useDocument) with their query lifecycle; the read      *)
(* statistics kept in a storage backend; buildConstraints; the query keys *)
(* of useCollection and the query cache its instances share.               *)
(***************************************************************************)
EXTENDS Integers, Sequences, FiniteSets, TLC

\* ------------------------------------------------------------------ bounds
\* Largest number of rows a query snapshot holds.
MaxRows == 2

\* ------------------------------------------------------------ value spaces
Undefined == "undefined"

\* type PreferCacheMode
Modes == {"default", "cache-first", "cache-only", "server-only"}

\* What a caller may pass as behavior.preferCache (or leave out).
Preferences == Modes \cup {Undefined}

DocIds == {"d1", "d2", "d3"}

\* Error codes the store raises on a read.
StoreErrors == {"unavailable", "permission-denied"}

\* Sequences over S without repetition, of length at most n.
RECURSIVE DistinctSeqs(_, _)
DistinctSeqs(S, n) ==
  IF n = 0 THEN {<<>>}
  ELSE LET shorter == DistinctSeqs(S, n - 1)
       IN shorter \cup
          {Append(s, x) : <<s, x>> \in
             {p \in shorter \X S :
                /\ Len(p[1]) = n - 1
                /\ \A i \in 1..Len(p[1]) : p[1][i] # p[2]}}

\* ------------------------------------------------- snapshots and outcomes
\* The read paths of the store client are named "cache" (getDocsFromCache /
\* getDocFromCache), "server" (getDocsFromServer / getDocFromServer) and
\* "sdk" (getDocs / getDoc).
NoSnap == [src |-> "none"]

\* A QuerySnapshot as the resolver sees it: the path that produced it and
\* the ids of its rows, in order.
QuerySnaps(src) == {[src |-> src, docs |-> s] : s \in DistinctSeqs(DocIds, MaxRows)}

\* A DocumentSnapshot of reference id: it carries the id of the reference.
DocSnaps(src, id) == {[src |-> src, id |-> id, exists |-> e] : e \in BOOLEAN}

NoOutcome == [status |-> "none", value |-> NoSnap, err |-> "none", src |-> "none"]
Resolved(snap) == [status |-> "ok", value |-> snap, err |-> "none", src |-> snap.src]
Rejected(src, e) == [status |-> "error", value |-> NoSnap, err |-> e, src |-> src]

\* ---------------------------------------------------------------- state
VARIABLES
  rfn,        \* the resolver running: "none", "getDocsByMode", "getDocByMode"
  rpref,      \* behavior.preferCache as the caller gave it
  rmode,      \* the mode the resolver was called with
  rref,       \* the document reference of getDocByMode ("none" for a query)
  rpc,        \* "idle", "await" (a store read is in flight), "done"
  rinflight,  \* the path of the store read in flight, or "none"
  rcalls,     \* the paths called so far by this resolver call, in order
  rcacheOut,  \* what the cache path answered
  rserverOut, \* what the server path answered
  rsdkOut,    \* what the combined read answered
  rresult     \* what the resolver's promise settled with

readVars == <<rfn, rpref, rmode, rref, rpc, rinflight, rcalls,
              rcacheOut, rserverOut, rsdkOut, rresult>>

VARIABLES
  cfg,         \* the UseFirebaseConfig the provider supplies
  active,      \* the write-hook invocations of this run
  mut,         \* per invocation: the hook's options and the mutation's progress
  db,          \* the store: collection -> (document id -> fields)
  invalidated, \* the cached query keys marked invalid so far
  warns,       \* what cfg.logger.warn was called with, in order
  errCalls,    \* what cfg.onError was called with, in order
  trace        \* the store calls, acknowledgements and invalidations, in order

writeVars == <<cfg, active, mut, db, invalidated, warns, errCalls, trace>>

VARIABLES
  env,      \* the host: cfg.storage, window.localStorage, cfg.defaultQueryOptions
  q,        \* the read hook mounted (useCollection / useDocument) and its query
  hookMem,  \* the in-memory map safeStorage made in the hook's latest render
  custom,   \* the contents of the storage adapter the application owns
  local,    \* the contents of window.localStorage
  clock,    \* the client's clock, as new Date() reads it
  last      \* the latest call of a statistics function and what it returned

hookVars == <<env, q, hookMem>>
statsVars == <<custom, local, clock, last>>

VARIABLES
  opts,        \* the query descriptor handed to buildConstraints
  constraints, \* per call: the constraints it had pushed when it ended
  buildThrew   \* per call: "none" when it returned, else the error it threw

buildVars == <<opts, constraints, buildThrew>>

VARIABLES
  keyCalls,  \* the query keys useCollection has built, with their arguments
  cache,     \* the query cache: query key -> the state of the query
  obs        \* the useCollection instances mounted on the cache

cacheVars == <<keyCalls, cache, obs>>

vars == <<readVars, writeVars, hookVars, statsVars, buildVars, cacheVars>>

\* A step of the resolver leaves the write hooks' state alone, and conversely.
R(A) == A /\ UNCHANGED <<writeVars, hookVars, statsVars, buildVars, cacheVars>>
W(A) == A /\ UNCHANGED <<readVars, hookVars, statsVars, buildVars, cacheVars>>

\* --------------------------------------------------- the cache-mode resolver
\* const { preferCache = "default" } = behavior ?? {}
PreferCache(pref) == IF pref = Undefined THEN "default" ELSE pref

\* QuerySnapshot.empty
Empty(snap) == Len(snap.docs) = 0

\* DocsFirstPath with the default case sent to the server read.
DocsFirstPath_DefaultToServer(mode) ==
  CASE mode = "cache-only" -> "cache"
    [] mode = "server-only" -> "server"
    [] mode = "cache-first" -> "cache"
    [] OTHER -> "server"

\* The switch of getDocsByMode: the read path each case calls first.
DocsFirstPath(mode) ==
  CASE mode = "cache-only" -> "cache"
    [] mode = "server-only" -> "server"
    [] mode = "cache-first" -> "cache"
    [] OTHER -> "sdk"

\* DocsAfterCacheReturn with the fallback on empty taken in every mode that
\* reads the cache.
DocsAfterCacheReturn_AnyMode(mode, snap) ==
  IF Empty(snap) THEN "server" ELSE "return"

\* getDocsByMode after its cache read answered snap: "return" it, or go on
\* to the "server" read. cache-only returns the promise of the cache read;
\* cache-first returns the snapshot unless it is empty.
DocsAfterCacheReturn(mode, snap) ==
  IF mode = "cache-first" /\ Empty(snap) THEN "server" ELSE "return"

\* DocsAfterCacheThrow without the try/catch around the cache read.
DocsAfterCacheThrow_NoCatch(mode) == "reject"

\* getDocsByMode after its cache read threw: cache-first swallows the error
\* (catch (_) {}) and goes on to the server read; cache-only rejects with it.
DocsAfterCacheThrow(mode) ==
  IF mode = "cache-first" THEN "server" ELSE "reject"

\* The switch of getDocByMode.
DocFirstPath(mode) ==
  CASE mode = "cache-only" -> "cache"
    [] mode = "server-only" -> "server"
    [] mode = "cache-first" -> "cache"
    [] OTHER -> "sdk"

\* DocAfterCacheReturn without the snap.exists() test.
DocAfterCacheReturn_NoExistsTest(mode, snap) == "return"

\* getDocByMode after its cache read answered snap.
DocAfterCacheReturn(mode, snap) ==
  IF mode = "cache-first" /\ ~snap.exists THEN "server" ELSE "return"

\* DocAfterCacheThrow without the try/catch around the cache read.
DocAfterCacheThrow_NoCatch(mode) == "reject"

\* getDocByMode after its cache read threw.
DocAfterCacheThrow(mode) ==
  IF mode = "cache-first" THEN "server" ELSE "reject"

ReadInit ==
  /\ rfn = "none"
  /\ rpref = Undefined
  /\ rmode = "none"
  /\ rref = "none"
  /\ rpc = "idle"
  /\ rinflight = "none"
  /\ rcalls = <<>>
  /\ rcacheOut = NoOutcome
  /\ rserverOut = NoOutcome
  /\ rsdkOut = NoOutcome
  /\ rresult = NoOutcome

\* The resolver settles with outcome out.
Settle(out) ==
  /\ rresult' = out
  /\ rpc' = "done"
  /\ rinflight' = "none"
  /\ UNCHANGED rcalls

\* The resolver issues its next store read on path.
Issue(path) ==
  /\ rcalls' = Append(rcalls, path)
  /\ rinflight' = path
  /\ rpc' = "await"
  /\ UNCHANGED rresult

\* useCollection's queryFn calls getDocsByMode(q, preferCache).
getDocsByMode(pref) ==
  /\ rpc = "idle"
  /\ rfn' = "getDocsByMode"
  /\ rpref' = pref
  /\ rmode' = PreferCache(pref)
  /\ rref' = "none"
  /\ rcalls' = <<DocsFirstPath(PreferCache(pref))>>
  /\ rinflight' = DocsFirstPath(PreferCache(pref))
  /\ rpc' = "await"
  /\ UNCHANGED <<rcacheOut, rserverOut, rsdkOut, rresult>>

getDocsFromCacheReturns(snap) ==
  /\ rfn = "getDocsByMode" /\ rpc = "await" /\ rinflight = "cache"
  /\ rcacheOut' = Resolved(snap)
  /\ IF DocsAfterCacheReturn(rmode, snap) = "return"
       THEN Settle(Resolved(snap))
       ELSE Issue("server")
  /\ UNCHANGED <<rfn, rpref, rmode, rref, rserverOut, rsdkOut>>

getDocsFromCacheThrows(e) ==
  /\ rfn = "getDocsByMode" /\ rpc = "await" /\ rinflight = "cache"
  /\ rcacheOut' = Rejected("cache", e)
  /\ IF DocsAfterCacheThrow(rmode) = "reject"
       THEN Settle(Rejected("cache", e))
       ELSE Issue("server")
  /\ UNCHANGED <<rfn, rpref, rmode, rref, rserverOut, rsdkOut>>

getDocsFromServerSettles(out) ==
  /\ rfn = "getDocsByMode" /\ rpc = "await" /\ rinflight = "server"
  /\ rserverOut' = out
  /\ Settle(out)
  /\ UNCHANGED <<rfn, rpref, rmode, rref, rcacheOut, rsdkOut>>

getDocsSettles(out) ==
  /\ rfn = "getDocsByMode" /\ rpc = "await" /\ rinflight = "sdk"
  /\ rsdkOut' = out
  /\ Settle(out)
  /\ UNCHANGED <<rfn, rpref, rmode, rref, rcacheOut, rserverOut>>

\* useDocument's queryFn calls getDocByMode(ref, preferCache).
getDocByMode(id, pref) ==
  /\ rpc = "idle"
  /\ rfn' = "getDocByMode"
  /\ rpref' = pref
  /\ rmode' = PreferCache(pref)
  /\ rref' = id
  /\ rcalls' = <<DocFirstPath(PreferCache(pref))>>
  /\ rinflight' = DocFirstPath(PreferCache(pref))
  /\ rpc' = "await"
  /\ UNCHANGED <<rcacheOut, rserverOut, rsdkOut, rresult>>

getDocFromCacheReturns(snap) ==
  /\ rfn = "getDocByMode" /\ rpc = "await" /\ rinflight = "cache"
  /\ rcacheOut' = Resolved(snap)
  /\ IF DocAfterCacheReturn(rmode, snap) = "return"
       THEN Settle(Resolved(snap))
       ELSE Issue("server")
  /\ UNCHANGED <<rfn, rpref, rmode, rref, rserverOut, rsdkOut>>

getDocFromCacheThrows(e) ==
  /\ rfn = "getDocByMode" /\ rpc = "await" /\ rinflight = "cache"
  /\ rcacheOut' = Rejected("cache", e)
  /\ IF DocAfterCacheThrow(rmode) = "reject"
       THEN Settle(Rejected("cache", e))
       ELSE Issue("server")
  /\ UNCHANGED <<rfn, rpref, rmode, rref, rserverOut, rsdkOut>>

getDocFromServerSettles(out) ==
  /\ rfn = "getDocByMode" /\ rpc = "await" /\ rinflight = "server"
  /\ rserverOut' = out
  /\ Settle(out)
  /\ UNCHANGED <<rfn, rpref, rmode, rref, rcacheOut, rsdkOut>>

getDocSettles(out) ==
  /\ rfn = "getDocByMode" /\ rpc = "await" /\ rinflight = "sdk"
  /\ rsdkOut' = out
  /\ Settle(out)
  /\ UNCHANGED <<rfn, rpref, rmode, rref, rcacheOut, rserverOut>>

\* The caller has its result; the next read starts from scratch.
ReadAgain ==
  /\ rpc = "done"
  /\ rfn' = "none"
  /\ rpref' = Undefined
  /\ rmode' = "none"
  /\ rref' = "none"
  /\ rpc' = "idle"
  /\ rinflight' = "none"
  /\ rcalls' = <<>>
  /\ rcacheOut' = NoOutcome
  /\ rserverOut' = NoOutcome
  /\ rsdkOut' = NoOutcome
  /\ rresult' = NoOutcome

\* Everything a store read on path src can answer for the running resolver.
Answers(src) ==
  IF rfn = "getDocByMode"
    THEN {Resolved(s) : s \in DocSnaps(src, rref)}
         \cup {Rejected(src, e) : e \in StoreErrors}
    ELSE {Resolved(s) : s \in QuerySnaps(src)}
         \cup {Rejected(src, e) : e \in StoreErrors}

ReadNext ==
  \/ \E pref \in Preferences : R(getDocsByMode(pref))
  \/ \E snap \in QuerySnaps("cache") : R(getDocsFromCacheReturns(snap))
  \/ \E e \in StoreErrors : R(getDocsFromCacheThrows(e))
  \/ \E out \in Answers("server") : R(getDocsFromServerSettles(out))
  \/ \E out \in Answers("sdk") : R(getDocsSettles(out))
  \/ \E id \in DocIds, pref \in Preferences : R(getDocByMode(id, pref))
  \/ \E snap \in DocSnaps("cache", rref) : R(getDocFromCacheReturns(snap))
  \/ \E e \in StoreErrors : R(getDocFromCacheThrows(e))
  \/ \E out \in Answers("server") : R(getDocFromServerSettles(out))
  \/ \E out \in Answers("sdk") : R(getDocSettles(out))
  \/ R(ReadAgain)

\* ============================================================ write hooks
Null == "null"

\* nowServerTimestamp(): the marker the store replaces by its own clock.
Now == "serverTimestamp"

\* new Date(): the client's clock.
ClientDate == "clientDate"

\* Collections the write hooks are used on.
Collections == {"todos", "users"}

\* Error codes the store raises on a write or on the hooks' own reads.
WriteErrors == {"permission-denied"}

\* Ids the store assigns to new documents.
AutoIds == {"n1", "n2"}

\* Titles callers write; the first needs trimming.
Titles == {" milk "}

EmptyRec == [k \in {} |-> k]

\* { ...a, ...b }: the fields of both, b's value where both have the field.
Spread(a, b) == b @@ a

\* const { id, ...update } = data
Rest(data) == [k \in DOMAIN data \ {"id"} |-> data[k]]

\* An optional value: <<>> when left out, <<v>> when given. A nullable
\* record is written the same way, <<>> standing for null / undefined.
OrDefault(opt, dflt) == IF opt = <<>> THEN dflt ELSE opt[1]

\* type UseFirebaseConfig: the fields the write hooks read. getUserId is
\* Undefined (no function given), Null (it returns null) or the user id it
\* returns; resolveLogCollection is Undefined or names the custom resolver.
\* ignoreUndefinedProperties is the setting cfg.db, the Firestore instance,
\* was initialised with (false unless the host asks for it).
Configs ==
  [keyPrefix : {Undefined, "app"},
   getUserId : {Undefined, Null, "u1"},
   includePreviousData : BOOLEAN,
   resolveLogCollection : {Undefined, "audit"},
   ignoreUndefinedProperties : BOOLEAN]

\* cfg.keyPrefix ?? "rf"
getKeyPrefix(c) == IF c.keyPrefix = Undefined THEN "rf" ELSE c.keyPrefix

defaultResolveLogCollection(name) == name \o "_log"

\* The resolver of the documentation's example: `${collectionName}_audit`.
customResolveLogCollection(name) == name \o "_audit"

\* cfg.logging?.resolveLogCollection?.(collectionName) ??
\*   defaultResolveLogCollection(collectionName)
ResolveLogCollection(c, name) ==
  IF c.resolveLogCollection = Undefined
    THEN defaultResolveLogCollection(name)
    ELSE customResolveLogCollection(name)

\* cfg.getUserId?.() ?? null
UserId(c) == IF c.getUserId = Undefined THEN Null ELSE c.getUserId

AllCollections ==
  Collections
  \cup {defaultResolveLogCollection(c) : c \in Collections}
  \cup {customResolveLogCollection(c) : c \in Collections}

\* JSON.stringify(options ?? {}) of the collection reads that are cached.
Descriptors == {"{}", "{limit:1}"}

\* The query keys useCollection and useDocument have put in the query cache.
CachedKeys ==
  {<<p, "collection", c, d>> : p \in {"rf", "app"}, c \in AllCollections, d \in Descriptors}
  \cup {<<p, "document", c, i>> : p \in {"rf", "app"}, c \in AllCollections, i \in DocIds}

\* Matching with the last element of queryKey compared as a string prefix.
Matching_ByStringPrefix(queryKey) ==
  {k \in CachedKeys :
     /\ Len(queryKey) <= Len(k)
     /\ \A i \in 1..Len(queryKey) :
          \/ k[i] = queryKey[i]
          \/ /\ i = Len(queryKey)
             /\ k[i] \in {queryKey[i] \o "_log", queryKey[i] \o "_audit"}}

\* qc.invalidateQueries({ queryKey }): the cached keys queryKey is a prefix of,
\* element by element.
Matching(queryKey) ==
  {k \in CachedKeys :
     /\ Len(queryKey) <= Len(k)
     /\ \A i \in 1..Len(queryKey) : k[i] = queryKey[i]}

\* beforeSave of the examples: trims the title.
Trim(t) == IF t = " milk " THEN "milk" ELSE t
ApplyBeforeSave(rec) ==
  IF "title" \in DOMAIN rec THEN [rec EXCEPT !.title = Trim(@)] ELSE rec

IdleMutation ==
  [hook |-> "none", col |-> "none", invalidateOpt |-> <<>>,
   enableLoggingOpt |-> <<>>, enableLogging |-> FALSE, beforeSave |-> "none",
   data |-> EmptyRec, id |-> "none",
   pc |-> "idle", status |-> "idle",
   payload |-> EmptyRec, refId |-> "none", preRead |-> "none", previous |-> <<>>,
   primary |-> "none", log |-> "none", logEntry |-> <<>>, logThrown |-> "none",
   result |-> <<>>, error |-> "none", inv |-> {}]

InitialDb ==
  [c \in AllCollections |->
     IF c \in Collections THEN ("d1" :> [title |-> "old"]) ELSE EmptyRec]

WriteInit ==
  /\ cfg \in Configs
  /\ active = {"m1"}
  /\ mut = [m \in active |-> IdleMutation]
  /\ db = InitialDb
  /\ invalidated = {}
  /\ warns = <<>>
  /\ errCalls = <<>>
  /\ trace = <<>>

Ev(m, ev) == [m |-> m, ev |-> ev]

\* What a store write answers: an acknowledgement (with the id the store
\* assigned, for addDoc) or an error.
Acked(id) == [ok |-> TRUE, id |-> id, err |-> "none"]
Failed(e) == [ok |-> FALSE, id |-> "none", err |-> e]

\* useMutation: the callback run when mutationFn settles.
SettledCallback_AlwaysOnSuccess(pc) == "onSuccess"

SettledCallback(pc) == IF pc = "returned" THEN "onSuccess" ELSE "onError"

\* The primary write rejected: no catch around it, mutationFn rejects.
AfterPrimaryThrow_Swallowed(hook) == "continue"

AfterPrimaryThrow(hook) == "reject"

\* The audit-log block threw: catch (e) { cfg.logger?.warn?.(...) }.
AfterLogThrow_NoCatch(hook) == "reject"

AfterLogThrow(hook) == "warn"

\* await addDoc(collection(cfg.db, logCol), ...): mutationFn waits for the
\* audit-log write before it returns.
AwaitsLogWrite_FireAndForget(hook) == FALSE

AwaitsLogWrite(hook) == TRUE

\* ------------------------------------------------ steps the hooks share
\* Where the audit-log block can throw before its addDoc is under way:
\* "getUserId" (cfg.getUserId throws), "collection" (collection() rejects
\* the log collection's name), "addDoc" (addDoc rejects the entry), or "none".
LogThrowPoints == {"none", "getUserId", "collection", "addDoc"}

\* addDoc(collection(cfg.db, logCol), entry) validates entry before it sends
\* it: a field whose value is undefined (previousData: previous ?? undefined
\* with previous null) makes it throw, unless the store was initialised with
\* ignoreUndefinedProperties.
LogAddDocRejects(c, entry) ==
  /\ ~c.ignoreUndefinedProperties
  /\ "previousData" \in DOMAIN entry
  /\ entry.previousData = <<>>

\* mutationFn from the answer out of its primary write to its next await (or
\* its return). written is the store once the write is applied, result the
\* value mutationFn will return, entry the audit-log entry it builds, userWarn
\* what it warns of before the entry is built, failMsg what its catch warns.
AfterPrimary(m, out, thrown, written, result, entry, userWarn, failMsg) ==
  LET r == mut[m]
      settled == [r EXCEPT !.primary = IF out.ok THEN "ok" ELSE "error",
                           !.refId = out.id,
                           !.result = <<result>>]
      threw == [settled EXCEPT
                  !.log = "error",
                  !.logThrown = thrown,
                  !.pc = IF AfterLogThrow(r.hook) = "warn" THEN "returned" ELSE "rejected",
                  !.error = IF AfterLogThrow(r.hook) = "warn" THEN "none" ELSE "log-error"]
      ack == Ev(m, IF out.ok THEN "primary:ok" ELSE "primary:fail")
  IN /\ r.pc = "primary"
     /\ thrown # "none" => (out.ok /\ r.enableLogging)
     /\ thrown = "getUserId" => cfg.getUserId # Undefined
     /\ thrown = "addDoc" => LogAddDocRejects(cfg, entry)
     /\ (out.ok /\ r.enableLogging /\ LogAddDocRejects(cfg, entry)) => thrown # "none"
     /\ IF ~out.ok /\ AfterPrimaryThrow(r.hook) = "reject"
          THEN /\ mut' = [mut EXCEPT ![m] = [r EXCEPT !.primary = "error",
                                                      !.pc = "rejected",
                                                      !.error = out.err]]
               /\ trace' = Append(trace, ack)
               /\ UNCHANGED <<db, warns>>
          ELSE /\ db' = IF out.ok THEN written ELSE db
               /\ IF ~r.enableLogging
                    THEN /\ mut' = [mut EXCEPT ![m] = [settled EXCEPT !.pc = "returned"]]
                         /\ trace' = Append(trace, ack)
                         /\ UNCHANGED warns
                    ELSE CASE thrown = "getUserId" ->
                                /\ mut' = [mut EXCEPT ![m] = threw]
                                /\ warns' = Append(warns, failMsg)
                                /\ trace' = trace \o <<ack, Ev(m, "log:threw")>>
                           [] thrown \in {"collection", "addDoc"} ->
                                /\ mut' = [mut EXCEPT ![m] = threw]
                                /\ warns' = Append(warns \o userWarn, failMsg)
                                /\ trace' = trace \o <<ack, Ev(m, "log:threw")>>
                           [] OTHER ->
                                /\ mut' = [mut EXCEPT ![m] =
                                     [settled EXCEPT
                                        !.log = "pending",
                                        !.logEntry = <<entry>>,
                                        !.pc = IF AwaitsLogWrite(r.hook)
                                                 THEN "log" ELSE "returned"]]
                                /\ warns' = warns \o userWarn
                                /\ trace' = trace \o <<ack, Ev(m, "log:call")>>
     /\ UNCHANGED <<cfg, active, invalidated, errCalls>>

\* The document the store keeps for an entry it accepted: a store that
\* ignores undefined properties leaves the field out.
StoredEntry(entry) ==
  IF "previousData" \in DOMAIN entry /\ entry.previousData = <<>>
    THEN [k \in DOMAIN entry \ {"previousData"} |-> entry[k]]
    ELSE entry

\* The audit-log write addDoc(collection(cfg.db, logCol), entry) answers out.
LogSettles(m, out, failMsg) ==
  LET r == mut[m]
      logCol == ResolveLogCollection(cfg, r.col)
  IN /\ r.log = "pending"
     /\ out.ok => out.id \notin DOMAIN db[logCol]
     /\ IF out.ok
          THEN /\ db' = [db EXCEPT ![logCol] = (out.id :> StoredEntry(r.logEntry[1])) @@ @]
               /\ mut' = [mut EXCEPT ![m] =
                    [r EXCEPT !.log = "ok",
                              !.pc = IF r.pc = "log" THEN "returned" ELSE @]]
               /\ trace' = Append(trace, Ev(m, "log:ok"))
               /\ UNCHANGED warns
          ELSE /\ mut' = [mut EXCEPT ![m] =
                    [r EXCEPT
                       !.log = "error",
                       !.pc = IF r.pc # "log" THEN @
                              ELSE IF AfterLogThrow(r.hook) = "warn"
                                     THEN "returned" ELSE "rejected",
                       !.error = IF r.pc = "log" /\ AfterLogThrow(r.hook) # "warn"
                                   THEN out.err ELSE @]]
               /\ warns' = Append(warns, failMsg)
               /\ trace' = Append(trace, Ev(m, "log:fail"))
               /\ UNCHANGED db
     /\ UNCHANGED <<cfg, active, invalidated, errCalls>>

\* mutationFn resolved: useMutation runs onSuccess, which calls
\* qc.invalidateQueries once for each of keys, and the mutation is a success.
RunOnSuccess(m, keys) ==
  LET r == mut[m]
      matched == UNION {Matching(keys[i]) : i \in 1..Len(keys)}
  IN /\ r.pc \in {"returned", "rejected"}
     /\ SettledCallback(r.pc) = "onSuccess"
     /\ invalidated' = invalidated \cup matched
     /\ mut' = [mut EXCEPT ![m] =
          [r EXCEPT !.pc = "done", !.status = "success", !.inv = matched]]
     /\ trace' = trace \o <<Ev(m, "onSuccess")>>
                       \o [i \in 1..Len(keys) |-> Ev(m, "invalidate")]
     /\ UNCHANGED <<cfg, active, db, warns, errCalls>>

\* mutationFn rejected: useMutation runs onError, which hands the error and
\* the context string to cfg.onError, and the mutation is an error.
RunOnError(m, hookName) ==
  LET r == mut[m]
  IN /\ r.pc \in {"returned", "rejected"}
     /\ SettledCallback(r.pc) = "onError"
     /\ errCalls' = Append(errCalls, [error |-> r.error,
                                      context |-> hookName \o ":" \o r.col])
     /\ mut' = [mut EXCEPT ![m] = [r EXCEPT !.pc = "done", !.status = "error"]]
     /\ trace' = Append(trace, Ev(m, "onError"))
     /\ UNCHANGED <<cfg, active, db, invalidated, warns>>

\* ---------------------------------------------------------- useAddDocument
\* What callers pass to mutate(): a title, with or without fields named id,
\* createdAt.
AddInputs ==
  {Spread([title |-> t], extra) :
     t \in Titles,
     extra \in {EmptyRec, [id |-> "c1"], [createdAt |-> "t0"],
                [id |-> "c1", createdAt |-> "t0"]}}

\* EnableLogging with logging on unless the caller turns it off.
EnableLogging_DefaultOn(opt) == OrDefault(opt, TRUE)

\* { enableLogging = false } = opts ?? {}
EnableLogging(opt) == OrDefault(opt, FALSE)

\* Invalidate with the option never read.
Invalidate_Ignored(r) == TRUE

\* { invalidate = true } = opts ?? {}
Invalidate(r) == OrDefault(r.invalidateOpt, TRUE)

\* AddBase with the transform never applied.
AddBase_IgnoresBeforeSave(beforeSave, data) == data

\* const base = beforeSave ? await beforeSave(data) : data
AddBase(beforeSave, data) ==
  IF beforeSave = "none" THEN data ELSE ApplyBeforeSave(data)

\* const payload = { ...base, createdAt: now, updatedAt: now }
AddPayload(base) == Spread(base, [createdAt |-> Now, updatedAt |-> Now])

\* AddResult returning the payload written instead of the caller's data.
AddResult_FromPayload(refId, data) == Spread([id |-> refId], AddPayload(data))

\* const result = { id: ref.id, ...(data as T) }
AddResult(refId, data) == Spread([id |-> refId], data)

\* The entry useAddDocument writes to the log collection.
AddLogEntry(c, payload, refId) ==
  Spread(payload, [originalDocId |-> refId, action |-> "CREATE",
                   modifiedBy |-> UserId(c), modifiedOn |-> ClientDate,
                   timestamp |-> Now])

\* if (!userId) cfg.logger?.warn?.(...)
AddUserWarning(c) ==
  IF UserId(c) = Null THEN <<"logging enabled but no user id">> ELSE <<>>

\* The query keys useAddDocument.onSuccess hands to qc.invalidateQueries.
AddInvalidations(c, r) ==
  IF Invalidate(r)
    THEN <<<<getKeyPrefix(c), "collection", r.col>>>>
         \o (IF r.enableLogging
               THEN <<<<getKeyPrefix(c), "collection", ResolveLogCollection(c, r.col)>>>>
               ELSE <<>>)
    ELSE <<>>

\* mutation.mutate(data) of useAddDocument(col, opts): mutationFn runs up to
\* its first await.
useAddDocument_mutate(m, col, invalidateOpt, enableLogging, beforeSave, data) ==
  LET r == [mut[m] EXCEPT !.hook = "useAddDocument", !.col = col,
                          !.invalidateOpt = invalidateOpt,
                          !.enableLoggingOpt = enableLogging,
                          !.enableLogging = EnableLogging(enableLogging),
                          !.beforeSave = beforeSave, !.data = data,
                          !.status = "pending"]
  IN /\ mut[m].pc = "idle"
     /\ IF beforeSave # "none"
          THEN /\ mut' = [mut EXCEPT ![m] = [r EXCEPT !.pc = "beforeSave"]]
               /\ trace' = Append(trace, Ev(m, "beforeSave:call"))
          ELSE /\ mut' = [mut EXCEPT ![m] =
                    [r EXCEPT !.payload = AddPayload(AddBase(beforeSave, data)),
                              !.primary = "pending", !.pc = "primary"]]
               /\ trace' = Append(trace, Ev(m, "primary:call"))
     /\ UNCHANGED <<cfg, active, db, invalidated, warns, errCalls>>

\* await beforeSave(data) settles: the transform's value, or its throw.
useAddDocument_beforeSaveSettles(m) ==
  LET r == mut[m]
  IN /\ r.hook = "useAddDocument" /\ r.pc = "beforeSave"
     /\ IF r.beforeSave = "throws"
          THEN /\ mut' = [mut EXCEPT ![m] =
                    [r EXCEPT !.pc = "rejected", !.error = "beforeSave-error"]]
               /\ trace' = Append(trace, Ev(m, "beforeSave:fail"))
          ELSE /\ mut' = [mut EXCEPT ![m] =
                    [r EXCEPT !.payload = AddPayload(AddBase(r.beforeSave, r.data)),
                              !.primary = "pending", !.pc = "primary"]]
               /\ trace' = Append(trace, Ev(m, "primary:call"))
     /\ UNCHANGED <<cfg, active, db, invalidated, warns, errCalls>>

\* await addDoc(collection(cfg.db, collectionName), payload) settles.
useAddDocument_addDocSettles(m, out, thrown) ==
  LET r == mut[m]
  IN /\ r.hook = "useAddDocument"
     /\ out.ok => out.id \notin DOMAIN db[r.col]
     /\ AfterPrimary(m, out, thrown,
                     [db EXCEPT ![r.col] = (out.id :> r.payload) @@ @],
                     AddResult(out.id, r.data),
                     AddLogEntry(cfg, r.payload, out.id),
                     AddUserWarning(cfg), "log create failed")

useAddDocument_logSettles(m, out) ==
  /\ mut[m].hook = "useAddDocument"
  /\ LogSettles(m, out, "log create failed")

useAddDocument_onSuccess(m) ==
  /\ mut[m].hook = "useAddDocument"
  /\ RunOnSuccess(m, AddInvalidations(cfg, mut[m]))

useAddDocument_onError(m) ==
  /\ mut[m].hook = "useAddDocument"
  /\ RunOnError(m, "useAddDocument")

\* ------------------------------------------ the pre-read of update and delete
\* The snapshot a read of collection col, document id, gives on path src.
StoredSnap(src, col, id) ==
  [src |-> src, id |-> id, exists |-> id \in DOMAIN db[col],
   data |-> IF id \in DOMAIN db[col] THEN db[col][id] ELSE EmptyRec]

\* What getDocByMode(ref, "default") can answer.
PreReadAnswers(col, id) ==
  {Resolved(StoredSnap(DocFirstPath("default"), col, id))}
  \cup {Rejected(DocFirstPath("default"), e) : e \in WriteErrors}

\* SnapRecord without the snap.exists() test.
SnapRecord_NoExistsTest(snap) == <<Spread([id |-> snap.id], snap.data)>>

\* snap.exists() ? { id: snap.id, ...snap.data() } : null
SnapRecord(snap) ==
  IF snap.exists THEN <<Spread([id |-> snap.id], snap.data)>> ELSE <<>>

\* AfterPreReadThrow without the try / catch around the read.
AfterPreReadThrow_NoCatch(hook) == "reject"

\* The pre-read threw: catch (e) { cfg.logger?.warn?.(...) }.
AfterPreReadThrow(hook) == "warn"

\* await getDocByMode(ref, "default") inside try / catch settles with out:
\* the record read is kept, a throw is warned of with failMsg, and the
\* primary write is called.
AfterPreRead(m, out, failMsg) ==
  LET r == mut[m]
  IN /\ r.pc = "preRead"
     /\ IF out.status # "ok" /\ AfterPreReadThrow(r.hook) = "reject"
          THEN /\ mut' = [mut EXCEPT ![m] =
                    [r EXCEPT !.preRead = "error", !.pc = "rejected", !.error = out.err]]
               /\ trace' = Append(trace, Ev(m, "preRead:fail"))
               /\ UNCHANGED warns
          ELSE /\ mut' = [mut EXCEPT ![m] =
                    [r EXCEPT !.previous = IF out.status = "ok"
                                             THEN SnapRecord(out.value) ELSE <<>>,
                              !.preRead = IF out.status = "ok" THEN "ok" ELSE "error",
                              !.primary = "pending", !.pc = "primary"]]
               /\ warns' = IF out.status = "ok" THEN warns ELSE Append(warns, failMsg)
               /\ trace' = trace \o <<Ev(m, IF out.status = "ok" THEN "preRead:ok"
                                             ELSE "preRead:fail"),
                                      Ev(m, "primary:call")>>
     /\ UNCHANGED <<cfg, active, db, invalidated, errCalls>>

\* ------------------------------------------------------- useUpdateDocument
\* Ids callers update and delete: d1 is stored, d2 is not.
TargetIds == {"d1", "d2"}

UpdateInputs == {[id |-> i, title |-> t] : i \in TargetIds, t \in Titles}

\* const payload = { ...update, updatedAt: now }
UpdatePayload(update) == Spread(update, [updatedAt |-> Now])

\* enableLogging && cfg.logging?.includePreviousData
ReadsPrevious(c, r) == r.enableLogging /\ c.includePreviousData

\* The entry useUpdateDocument writes to the log collection; previousData is
\* previous ?? undefined.
UpdateLogEntry(c, payload, id, previous) ==
  Spread(payload, [originalDocId |-> id, action |-> "UPDATE",
                   modifiedBy |-> UserId(c), modifiedOn |-> ClientDate,
                   timestamp |-> Now, previousData |-> previous])

\* UpdateInvalidations without the document's own key.
UpdateInvalidations_NoDocumentKey(c, r) ==
  <<<<getKeyPrefix(c), "collection", r.col>>>>
  \o (IF r.enableLogging
        THEN <<<<getKeyPrefix(c), "collection", ResolveLogCollection(c, r.col)>>>>
        ELSE <<>>)

\* The query keys useUpdateDocument.onSuccess hands to qc.invalidateQueries.
UpdateInvalidations(c, r) ==
  <<<<getKeyPrefix(c), "collection", r.col>>,
    <<getKeyPrefix(c), "document", r.col, r.data.id>>>>
  \o (IF r.enableLogging
        THEN <<<<getKeyPrefix(c), "collection", ResolveLogCollection(c, r.col)>>>>
        ELSE <<>>)

\* mutationFn of useUpdateDocument from the payload on, up to its next await.
UpdateWithPayload(m, r, update) ==
  IF ReadsPrevious(cfg, r)
    THEN /\ mut' = [mut EXCEPT ![m] =
              [r EXCEPT !.payload = UpdatePayload(update),
                        !.preRead = "pending", !.pc = "preRead"]]
         /\ trace' = Append(trace, Ev(m, "preRead:call"))
    ELSE /\ mut' = [mut EXCEPT ![m] =
              [r EXCEPT !.payload = UpdatePayload(update),
                        !.primary = "pending", !.pc = "primary"]]
         /\ trace' = Append(trace, Ev(m, "primary:call"))

\* mutation.mutate(data) of useUpdateDocument(col, opts).
useUpdateDocument_mutate(m, col, enableLogging, beforeSave, data) ==
  LET r == [mut[m] EXCEPT !.hook = "useUpdateDocument", !.col = col,
                          !.enableLoggingOpt = enableLogging,
                          !.enableLogging = EnableLogging(enableLogging),
                          !.beforeSave = beforeSave, !.data = data,
                          !.id = data.id, !.status = "pending"]
  IN /\ mut[m].pc = "idle"
     /\ IF beforeSave # "none"
          THEN /\ mut' = [mut EXCEPT ![m] = [r EXCEPT !.pc = "beforeSave"]]
               /\ trace' = Append(trace, Ev(m, "beforeSave:call"))
          ELSE UpdateWithPayload(m, r, Rest(data))
     /\ UNCHANGED <<cfg, active, db, invalidated, warns, errCalls>>

\* await beforeSave(update) settles.
useUpdateDocument_beforeSaveSettles(m) ==
  LET r == mut[m]
  IN /\ r.hook = "useUpdateDocument" /\ r.pc = "beforeSave"
     /\ IF r.beforeSave = "throws"
          THEN /\ mut' = [mut EXCEPT ![m] =
                    [r EXCEPT !.pc = "rejected", !.error = "beforeSave-error"]]
               /\ trace' = Append(trace, Ev(m, "beforeSave:fail"))
          ELSE UpdateWithPayload(m, r, ApplyBeforeSave(Rest(r.data)))
     /\ UNCHANGED <<cfg, active, db, invalidated, warns, errCalls>>

useUpdateDocument_preReadSettles(m, out) ==
  /\ mut[m].hook = "useUpdateDocument"
  /\ AfterPreRead(m, out, "failed to fetch previous for logging")

\* await updateDoc(ref, payload) settles; the store refuses to update a
\* document that does not exist.
useUpdateDocument_updateDocSettles(m, out, thrown) ==
  LET r == mut[m]
  IN /\ r.hook = "useUpdateDocument"
     /\ out.id = "none"
     /\ out.ok => r.id \in DOMAIN db[r.col]
     /\ AfterPrimary(m, out, thrown,
                     [db EXCEPT ![r.col] =
                        (r.id :> Spread(db[r.col][r.id], r.payload)) @@ @],
                     r.data,
                     UpdateLogEntry(cfg, r.payload, r.id, r.previous),
                     <<>>, "log update failed")

useUpdateDocument_logSettles(m, out) ==
  /\ mut[m].hook = "useUpdateDocument"
  /\ LogSettles(m, out, "log update failed")

useUpdateDocument_onSuccess(m) ==
  /\ mut[m].hook = "useUpdateDocument"
  /\ RunOnSuccess(m, UpdateInvalidations(cfg, mut[m]))

useUpdateDocument_onError(m) ==
  /\ mut[m].hook = "useUpdateDocument"
  /\ RunOnError(m, "useUpdateDocument")

\* ------------------------------------------------------- useDeleteDocument
\* The entry useDeleteDocument writes to the log collection.
DeleteLogEntry(c, id, deletedData) ==
  [originalDocId |-> id, action |-> "DELETE",
   modifiedBy |-> UserId(c), modifiedOn |-> ClientDate,
   timestamp |-> Now, deletedData |-> deletedData]

\* The query keys useDeleteDocument.onSuccess hands to qc.invalidateQueries.
DeleteInvalidations(c, r) ==
  <<<<getKeyPrefix(c), "collection", r.col>>,
    <<getKeyPrefix(c), "document", r.col, r.id>>>>
  \o (IF r.enableLogging
        THEN <<<<getKeyPrefix(c), "collection", ResolveLogCollection(c, r.col)>>>>
        ELSE <<>>)

\* mutation.mutate(id) of useDeleteDocument(col, opts): the pre-delete read
\* is called whatever the options.
useDeleteDocument_mutate(m, col, enableLogging, id) ==
  /\ mut[m].pc = "idle"
  /\ mut' = [mut EXCEPT ![m] =
       [@ EXCEPT !.hook = "useDeleteDocument", !.col = col,
                 !.enableLoggingOpt = enableLogging,
                 !.enableLogging = EnableLogging(enableLogging), !.id = id,
                 !.status = "pending", !.preRead = "pending", !.pc = "preRead"]]
  /\ trace' = Append(trace, Ev(m, "preRead:call"))
  /\ UNCHANGED <<cfg, active, db, invalidated, warns, errCalls>>

useDeleteDocument_preReadSettles(m, out) ==
  /\ mut[m].hook = "useDeleteDocument"
  /\ AfterPreRead(m, out, "pre-delete fetch failed")

\* await deleteDoc(ref) settles.
useDeleteDocument_deleteDocSettles(m, out, thrown) ==
  LET r == mut[m]
  IN /\ r.hook = "useDeleteDocument"
     /\ out.id = "none"
     /\ AfterPrimary(m, out, thrown,
                     [db EXCEPT ![r.col] =
                        [k \in DOMAIN db[r.col] \ {r.id} |-> db[r.col][k]]],
                     r.id,
                     DeleteLogEntry(cfg, r.id, r.previous),
                     <<>>, "log delete failed")

useDeleteDocument_logSettles(m, out) ==
  /\ mut[m].hook = "useDeleteDocument"
  /\ LogSettles(m, out, "log delete failed")

useDeleteDocument_onSuccess(m) ==
  /\ mut[m].hook = "useDeleteDocument"
  /\ RunOnSuccess(m, DeleteInvalidations(cfg, mut[m]))

useDeleteDocument_onError(m) ==
  /\ mut[m].hook = "useDeleteDocument"
  /\ RunOnError(m, "useDeleteDocument")

\* ========================================================= read statistics
\* A string is written as the sequence of its pieces: the characters of a
\* number, or the literal parts and the interpolated values of a template
\* literal. `a${b}` is a \o b and "" is <<>>. A value that may be null is
\* <<>> for null and <<v>> otherwise.

\* Largest read count the hook is let to reach, and latest clock reading.
MaxCount == 2
MaxClock == 1

\* interface StorageLike over an insertion-ordered map, as the in-memory
\* fallback of safeStorage implements it: the entries [k, v] in order.
EmptyStore == <<>>

HasItem(st, k) == \E i \in 1..Len(st) : st[i].k = k

\* getItem: (k) => (mem.has(k) ? mem.get(k)! : null)
getItem(st, k) ==
  IF HasItem(st, k) THEN <<st[CHOOSE i \in 1..Len(st) : st[i].k = k].v>> ELSE <<>>

\* setItem: (k, v) => { mem.set(k, v) }
setItem(st, k, v) ==
  IF HasItem(st, k)
    THEN [i \in 1..Len(st) |-> IF st[i].k = k THEN [k |-> k, v |-> v] ELSE st[i]]
    ELSE Append(st, [k |-> k, v |-> v])

\* removeItem: (k) => { mem.delete(k) }
removeItem(st, k) == SelectSeq(st, LAMBDA e : e.k # k)

\* get length() { return mem.size }
length(st) == Len(st)

\* key: (i) => Array.from(mem.keys())[i] ?? null
key(st, i) == IF i + 1 \in 1..Len(st) THEN <<st[i + 1].k>> ELSE <<>>

\* A JavaScript number: an integer, or NaN.
NaN == [nan |-> TRUE, val |-> 0]
Num(n) == [nan |-> FALSE, val |-> n]

Digits == <<"0", "1", "2", "3", "4", "5", "6", "7", "8", "9">>
IsDigit(c) == \E d \in 1..10 : Digits[d] = c
DigitVal(c) == (CHOOSE d \in 1..10 : Digits[d] = c) - 1
AllDigits(s) == \A i \in 1..Len(s) : IsDigit(s[i])

RECURSIVE DecimalValue(_)
DecimalValue(s) ==
  IF s = <<>> THEN 0
  ELSE 10 * DecimalValue(SubSeq(s, 1, Len(s) - 1)) + DigitVal(s[Len(s)])

RECURSIVE DecimalDigits(_)
DecimalDigits(n) ==
  IF n < 10 THEN <<Digits[n + 1]>>
  ELSE Append(DecimalDigits(n \div 10), Digits[(n % 10) + 1])

\* Number(s) on strings of digits, "-" and letters: "" is 0, a decimal
\* numeral with or without a sign is its value, anything else is NaN.
Number(s) ==
  IF s = <<>> THEN Num(0)
  ELSE IF AllDigits(s) THEN Num(DecimalValue(s))
  ELSE IF s[1] = "-" /\ Len(s) > 1 /\ AllDigits(Tail(s))
    THEN Num(0 - DecimalValue(Tail(s)))
  ELSE NaN

\* String(x)
String(x) ==
  IF x.nan THEN <<"N", "a", "N">>
  ELSE IF x.val < 0 THEN <<"-">> \o DecimalDigits(0 - x.val)
  ELSE DecimalDigits(x.val)

\* count + 1
Plus1(x) == IF x.nan THEN NaN ELSE Num(x.val + 1)

\* new Date().toISOString() at clock reading t.
toISOString(t) == <<"T">> \o DecimalDigits(t)

\* `@romyapps:readCount::${collectionName}` and its companion.
ReadCountKey(col) == <<"@romyapps:readCount::", col>>
LastFetchedKey(col) == <<"@romyapps:lastFetched::", col>>

\* k.startsWith(p)
StartsWith(k, p) == Len(k) >= Len(p) /\ SubSeq(k, 1, Len(p)) = p

\* const count = Number(storage.getItem(key) ?? "0")
RecordCount(st, col) == Number(OrDefault(getItem(st, ReadCountKey(col)), <<"0">>))

\* recordReadStats: the value it returns, { updated }.
RecordUpdated(st, col) == Plus1(RecordCount(st, col))

\* recordReadStats: the storage once it has run at clock reading t.
recordReadStats(st, col, t) ==
  setItem(setItem(st, ReadCountKey(col), String(RecordUpdated(st, col))),
          LastFetchedKey(col), toISOString(t))

\* getCollectionStats: { readCount, lastFetched }.
getCollectionStats(st, col) ==
  [readCount |-> Number(OrDefault(getItem(st, ReadCountKey(col)), <<"0">>)),
   lastFetched |-> getItem(st, LastFetchedKey(col))]

\* clearCollectionStats removing the read count only.
clearCollectionStats_CountOnly(st, col) == removeItem(st, ReadCountKey(col))

\* clearCollectionStats: both keys of the collection are removed.
clearCollectionStats(st, col) ==
  removeItem(removeItem(st, ReadCountKey(col)), LastFetchedKey(col))

\* The test of clearAllCollectionStats with the last-fetched prefix left out.
Namespaced_ReadCountOnly(k) == StartsWith(k, <<"@romyapps:readCount::">>)

\* k.startsWith("@romyapps:readCount::") || k.startsWith("@romyapps:lastFetched::")
Namespaced(k) ==
  \/ StartsWith(k, <<"@romyapps:readCount::">>)
  \/ StartsWith(k, <<"@romyapps:lastFetched::">>)

\* The loop of clearAllCollectionStats from index i on: the keys it pushes
\* to toRemove. An index without a key, or with the key "", is skipped.
RECURSIVE ToRemove(_, _)
ToRemove(st, i) ==
  IF ~(i < length(st)) THEN <<>>
  ELSE LET k == key(st, i)
       IN (IF k = <<>> \/ k[1] = <<>> THEN <<>>
           ELSE IF Namespaced(k[1]) THEN <<k[1]>> ELSE <<>>)
          \o ToRemove(st, i + 1)

\* toRemove.forEach((k) => storage.removeItem(k))
RECURSIVE RemoveEach(_, _)
RemoveEach(st, ks) ==
  IF ks = <<>> THEN st ELSE RemoveEach(removeItem(st, Head(ks)), Tail(ks))

\* clearAllCollectionStats: the storage afterwards and { removed }.
clearAllCollectionStats(st) ==
  [store |-> RemoveEach(st, ToRemove(st, 0)), removed |-> Len(ToRemove(st, 0))]

\* ------------------------------------------------------------ safeStorage
\* window.localStorage: not there (no window, or no localStorage on it),
\* there, or throwing when it is touched.
Platforms == {"absent", "present", "throws"}

\* safeStorage(custom): the storage it returns, "custom" (the adapter handed
\* in), "local" (window.localStorage) or "mem" (a new in-memory map).
safeStorage(given, platform) ==
  IF given THEN "custom"
  ELSE IF platform = "present" THEN "local"
  ELSE "mem"

\* The contents of the storage safeStorage returned; a new map is empty.
StoreOf(ref) ==
  CASE ref = "custom" -> custom
    [] ref = "local" -> local
    [] OTHER -> EmptyStore

\* A call on the storage ref has left it holding st. An in-memory map that
\* no one keeps a reference to is gone with the call.
StoreBecomes(ref, st) ==
  /\ custom' = IF ref = "custom" THEN st ELSE custom
  /\ local' = IF ref = "local" THEN st ELSE local

\* A call of a statistics function: the storage it ran on, what that held
\* before and after, what the call returned, and the clock reading.
Call(fn, col, ref, before, after, ret) ==
  [fn |-> fn, col |-> col, ref |-> ref, before |-> before, after |-> after,
   ret |-> ret, at |-> clock]

NoCall == [fn |-> "none", col |-> "none", ref |-> "none",
           before |-> EmptyStore, after |-> EmptyStore, ret |-> <<>>, at |-> 0]

\* Collections whose statistics are kept.
StatsCollections == {"todos", "users"}

\* What the application itself keeps in the storage it shares with the hooks.
ForeignEntries ==
  {[k |-> <<"theme">>, v |-> <<"dark">>],
   [k |-> ReadCountKey("todos"), v |-> <<"a", "b", "c">>]}

\* The storages the application starts with: empty, or holding a key of its
\* own that nearly has the statistics prefix, the statistics of users, and
\* a count of todos that is the empty string.
InitialStores ==
  {EmptyStore,
   <<[k |-> ReadCountKey("users"), v |-> <<"1">>],
     [k |-> <<"@romyapps:readCount">>, v |-> <<"7">>],
     [k |-> LastFetchedKey("users"), v |-> toISOString(0)],
     [k |-> ReadCountKey("todos"), v |-> <<>>]>>}

StatsInit ==
  /\ custom = EmptyStore
  /\ local = EmptyStore
  /\ clock = 0
  /\ last = NoCall

\* The hook's effect, in a render where the query turned successful, calls
\* recordReadStats(storage, collectionName) with storage = safeStorage(cfg.storage).
recordReadStatsCall(col, given) ==
  LET ref == safeStorage(given, env.platform)
      st == StoreOf(ref)
  IN /\ ~RecordCount(st, col).nan => RecordCount(st, col).val < MaxCount
     /\ StoreBecomes(ref, recordReadStats(st, col, clock))
     /\ last' = Call("recordReadStats", col, ref, st, recordReadStats(st, col, clock),
                      <<RecordUpdated(st, col)>>)
     /\ UNCHANGED clock

\* getCollectionStats(collectionName, storage?) as index re-exports it.
getCollectionStatsCall(col, given) ==
  LET ref == safeStorage(given, env.platform)
      st == StoreOf(ref)
  IN /\ last' = Call("getCollectionStats", col, ref, st, st,
                      <<getCollectionStats(st, col)>>)
     /\ UNCHANGED <<custom, local, clock>>

\* clearCollectionStats(collectionName, storage?)
clearCollectionStatsCall(col, given) ==
  LET ref == safeStorage(given, env.platform)
      st == StoreOf(ref)
  IN /\ StoreBecomes(ref, clearCollectionStats(st, col))
     /\ last' = Call("clearCollectionStats", col, ref, st,
                      clearCollectionStats(st, col), <<>>)
     /\ UNCHANGED clock

\* clearAllCollectionStats(storage?)
clearAllCollectionStatsCall(given) ==
  LET ref == safeStorage(given, env.platform)
      st == StoreOf(ref)
  IN /\ StoreBecomes(ref, clearAllCollectionStats(st).store)
     /\ last' = Call("clearAllCollectionStats", "none", ref, st,
                      clearAllCollectionStats(st).store,
                      <<clearAllCollectionStats(st).removed>>)
     /\ UNCHANGED clock

\* The application writes an entry of its own to the storage it shares with
\* the hooks.
ForeignSetItem(e, given) ==
  LET ref == safeStorage(given, env.platform)
      st == StoreOf(ref)
  IN /\ ref # "mem"
     /\ getItem(st, e.k) # <<e.v>>
     /\ StoreBecomes(ref, setItem(st, e.k, e.v))
     /\ last' = Call("setItem", "none", ref, st, setItem(st, e.k, e.v), <<>>)
     /\ UNCHANGED clock

\* Time passes.
Tick ==
  /\ clock < MaxClock
  /\ clock' = clock + 1
  /\ UNCHANGED <<custom, local, last>>

\* ============================================================== read hooks
\* Most fetches one mounted hook is let to make.
MaxFetches == 2

\* What the documents of the collection hold. d2 was created with a field
\* named id of the caller's own, d3 with one that repeats the id of d1.
StoredFields ==
  [i \in DocIds |->
     CASE i = "d1" -> [title |-> "old"]
       [] i = "d2" -> [id |-> "c1", title |-> "milk"]
       [] OTHER -> [id |-> "d1", title |-> "tea"]]

\* snapshot.docs.map((doc) => ({ id: doc.id, ...doc.data() }))
convertQuerySnapshot(snapshot) ==
  [i \in 1..Len(snapshot.docs) |->
     Spread([id |-> snapshot.docs[i]], StoredFields[snapshot.docs[i]])]

\* convertDocSnapshot: null when the document does not exist, else
\* { id: snapshot.id, ...snapshot.data() }.
convertDocSnapshot(snapshot) ==
  IF ~snapshot.exists THEN <<>>
  ELSE <<Spread([id |-> snapshot.id], StoredFields[snapshot.id])>>

\* The data of a query: undefined, null, a record, a list of records, or the
\* list with its pagination metadata.
NoData == [kind |-> "undefined"]
NullData == [kind |-> "null"]
RecordData(rec) == [kind |-> "record", value |-> rec]
ItemsData(items) == [kind |-> "items", value |-> items]
MetaData(snapshot, items) ==
  [kind |-> "meta", value |-> items,
   firstDoc |-> IF Len(snapshot.docs) > 0 THEN <<snapshot.docs[1]>> ELSE <<>>,
   lastDoc |-> IF Len(snapshot.docs) > 0
                 THEN <<snapshot.docs[Len(snapshot.docs)]>> ELSE <<>>,
   size |-> Len(snapshot.docs),
   empty |-> Empty(snapshot)]

\* What useCollection's queryFn returns for the snapshot it read.
CollectionData(snapshot, withMeta) ==
  IF withMeta THEN MetaData(snapshot, convertQuerySnapshot(snapshot))
  ELSE ItemsData(convertQuerySnapshot(snapshot))

\* What useDocument's queryFn returns for the snapshot it read.
DocumentData(snapshot) ==
  IF convertDocSnapshot(snapshot) = <<>> THEN NullData
  ELSE RecordData(convertDocSnapshot(snapshot)[1])

\* documentId?: string | null, as callers pass it.
DocumentIds == {Undefined, Null, "", "d1"}

\* !documentId
Absent(documentId) == documentId \in {Undefined, Null, ""}

\* The enabled option of useQuery, left out or given.
EnabledOptions == {<<>>, <<TRUE>>, <<FALSE>>}

\* The hosts: cfg.storage given or not, window.localStorage, and
\* cfg.defaultQueryOptions.enabled.
Envs ==
  {e \in [storage : BOOLEAN, platform : Platforms, defaultEnabled : EnabledOptions] :
     e.storage => e.platform = "absent"}

NoQuery ==
  [hook |-> "none", col |-> "none", documentId |-> Undefined, pref |-> Undefined,
   withMeta |-> FALSE, enabledOpt |-> <<>>,
   status |-> "pending", fetchStatus |-> "idle", immediate |-> FALSE,
   data |-> NoData, error |-> "none",
   depSuccess |-> FALSE, depError |-> <<FALSE, "none">>,
   snapshot |-> NoSnap, fetches |-> 0, succeeded |-> 0, storeReads |-> 0,
   recorded |-> 0, recordedWhile |-> <<>>, handled |-> <<>>]

HookInit ==
  /\ env = [storage |-> FALSE, platform |-> "absent", defaultEnabled |-> <<>>]
  /\ q = NoQuery
  /\ hookMem = EmptyStore

\* queryFn of useDocument without its test of documentId.
DocQueryFnReads_NoIdTest(documentId) == TRUE

\* if (!documentId) return null: queryFn reads the store for a documentId
\* that is there only.
DocQueryFnReads(documentId) == ~Absent(documentId)

\* The enabled option useQuery ends up with: { enabled: !!documentId, ...,
\* ...cfg.defaultQueryOptions, ...rqOptions } for useDocument; useCollection
\* sets none, and useQuery's default is true.
Enabled(r) ==
  OrDefault(r.enabledOpt,
            OrDefault(env.defaultEnabled,
                      IF r.hook = "useDocument" THEN ~Absent(r.documentId) ELSE TRUE))

\* res.isSuccess, res.isError
IsSuccess(r) == r.status = "success"
IsError(r) == r.status = "error"

\* The hooks' steps leave the write hooks alone but for cfg.onError.
HookFrame ==
  UNCHANGED <<cfg, active, mut, db, invalidated, warns, trace, buildVars, cacheVars>>

\* useQuery starts a fetch of query r: its state turns to fetching, and to
\* pending without an error when it holds no data yet.
Fetching(r) ==
  [r EXCEPT !.fetchStatus = "fetching",
            !.fetches = @ + 1,
            !.status = IF r.data = NoData THEN "pending" ELSE @,
            !.error = IF r.data = NoData THEN "none" ELSE @]

\* useCollection(collectionName, options, behavior) is rendered for the first
\* time: useQuery is set up and, when enabled, queryFn runs up to its await
\* of getDocsByMode. Both effects run with nothing to report.
useCollection_mount(col, pref, withMeta, enabledOpt) ==
  LET r == [NoQuery EXCEPT !.hook = "useCollection", !.col = col, !.pref = pref,
                           !.withMeta = withMeta, !.enabledOpt = enabledOpt]
  IN /\ q.hook = "none"
     /\ IF Enabled(r)
          THEN /\ getDocsByMode(pref)
               /\ q' = Fetching(r)
          ELSE /\ rpc = "idle"
               /\ q' = r
               /\ UNCHANGED readVars
     /\ hookMem' = EmptyStore
     /\ UNCHANGED <<env, errCalls, statsVars>>
     /\ HookFrame

\* The promise of useCollection's queryFn settles: with the normalized rows
\* (and the metadata asked for) of the snapshot, or with the read's error.
useCollection_queryFnSettles ==
  /\ q.hook = "useCollection" /\ q.fetchStatus = "fetching"
  /\ rpc = "done"
  /\ q' = IF rresult.status = "ok"
            THEN [q EXCEPT !.fetchStatus = "idle", !.status = "success",
                           !.error = "none",
                           !.data = CollectionData(rresult.value, q.withMeta),
                           !.snapshot = rresult.value,
                           !.succeeded = @ + 1,
                           !.storeReads = @ + Len(rcalls)]
            ELSE [q EXCEPT !.fetchStatus = "idle", !.status = "error",
                           !.error = rresult.err,
                           !.storeReads = @ + Len(rcalls)]
  /\ ReadAgain
  /\ UNCHANGED <<env, hookMem, errCalls, statsVars>>
  /\ HookFrame

\* The effect on [res.isSuccess, collectionName] without its isSuccess test.
RecordsRead_Always(r) == TRUE

\* if (res.isSuccess) recordReadStats(storage, collectionName)
RecordsRead(r) == IsSuccess(r)

\* The render after the query's state changed, and the effects whose
\* dependencies changed with it: storage = safeStorage(cfg.storage) is made
\* anew, recordReadStats runs when the query turned successful, cfg.onError
\* when it turned to an error.
useCollection_effects ==
  LET ref == safeStorage(env.storage, env.platform)
      st == StoreOf(ref)
      successChanged == IsSuccess(q) # q.depSuccess
      errorChanged == <<IsError(q), q.error>> # q.depError
      records == successChanged /\ RecordsRead(q)
      reports == errorChanged /\ IsError(q) /\ q.error # "none"
  IN /\ q.hook = "useCollection"
     /\ q.fetchStatus = "idle"
     /\ successChanged \/ errorChanged
     /\ IF records
          THEN /\ StoreBecomes(ref, recordReadStats(st, q.col, clock))
               /\ hookMem' = IF ref = "mem" THEN recordReadStats(st, q.col, clock)
                             ELSE EmptyStore
               /\ last' = Call("recordReadStats", q.col, ref, st,
                                recordReadStats(st, q.col, clock),
                                <<RecordUpdated(st, q.col)>>)
          ELSE /\ hookMem' = EmptyStore
               /\ UNCHANGED <<custom, local, last>>
     /\ errCalls' = IF reports
                      THEN Append(errCalls, [error |-> q.error,
                                             context |-> "useCollection" \o ":" \o q.col])
                      ELSE errCalls
     /\ q' = [q EXCEPT !.depSuccess = IsSuccess(q),
                       !.depError = <<IsError(q), q.error>>,
                       !.recorded = IF records THEN @ + 1 ELSE @,
                       !.recordedWhile = IF records THEN Append(@, q.status) ELSE @,
                       !.handled = IF reports THEN Append(@, q.error) ELSE @]
     /\ UNCHANGED <<env, clock, readVars>>
     /\ HookFrame

\* The query of the mounted useCollection is fetched again (its key was
\* invalidated, or the caller asked for a refetch).
useCollection_refetch ==
  /\ q.hook = "useCollection" /\ q.fetchStatus = "idle"
  /\ q.status \in {"success", "error"}
  /\ IsSuccess(q) = q.depSuccess /\ <<IsError(q), q.error>> = q.depError
  /\ q.fetches < MaxFetches
  /\ getDocsByMode(q.pref)
  /\ q' = Fetching(q)
  /\ hookMem' = EmptyStore
  /\ UNCHANGED <<env, errCalls, statsVars>>
  /\ HookFrame

\* useDocument(collectionName, documentId, behavior) is rendered for the
\* first time: when enabled, queryFn runs; it returns null at once for an
\* absent documentId and otherwise runs up to its await of getDocByMode.
useDocument_mount(col, documentId, pref, enabledOpt) ==
  LET r == [NoQuery EXCEPT !.hook = "useDocument", !.col = col,
                           !.documentId = documentId, !.pref = pref,
                           !.enabledOpt = enabledOpt]
  IN /\ q.hook = "none"
     /\ IF Enabled(r) /\ DocQueryFnReads(documentId)
          THEN /\ getDocByMode(documentId, pref)
               /\ q' = Fetching(r)
          ELSE /\ rpc = "idle"
               /\ q' = IF Enabled(r) THEN [Fetching(r) EXCEPT !.immediate = TRUE] ELSE r
               /\ UNCHANGED readVars
     /\ UNCHANGED <<env, hookMem, errCalls, statsVars>>
     /\ HookFrame

\* The promise of useDocument's queryFn settles.
useDocument_queryFnSettles ==
  /\ q.hook = "useDocument" /\ q.fetchStatus = "fetching"
  /\ IF q.immediate
       THEN /\ q' = [q EXCEPT !.fetchStatus = "idle", !.status = "success",
                              !.error = "none", !.data = NullData,
                              !.succeeded = @ + 1, !.immediate = FALSE]
            /\ UNCHANGED readVars
       ELSE /\ rpc = "done"
            /\ q' = IF rresult.status = "ok"
                      THEN [q EXCEPT !.fetchStatus = "idle", !.status = "success",
                                     !.error = "none",
                                     !.data = DocumentData(rresult.value),
                                     !.snapshot = rresult.value,
                                     !.succeeded = @ + 1,
                                     !.storeReads = @ + Len(rcalls)]
                      ELSE [q EXCEPT !.fetchStatus = "idle", !.status = "error",
                                     !.error = rresult.err,
                                     !.storeReads = @ + Len(rcalls)]
            /\ ReadAgain
  /\ UNCHANGED <<env, hookMem, errCalls, statsVars>>
  /\ HookFrame

\* A step of the statistics functions leaves everything else alone.
S(A) == A /\ UNCHANGED <<readVars, writeVars, hookVars, buildVars, cacheVars>>

\* ======================================================== buildConstraints
\* Most clauses a descriptor's where and orderBy lists hold.
MaxClauses == 2

\* Sequences over S of length at most n.
RECURSIVE SeqsUpTo(_, _)
SeqsUpTo(X, n) ==
  IF n = 0 THEN {<<>>}
  ELSE SeqsUpTo(X, n - 1)
       \cup {Append(s, x) : s \in {t \in SeqsUpTo(X, n - 1) : Len(t) = n - 1}, x \in X}

\* type WhereClause, type OrderByClause (direction left out or given),
\* type CursorConfig (doc a snapshot or null).
WhereClauses ==
  {[field |-> "done", operator |-> "==", value |-> "false"],
   [field |-> "rank", operator |-> "<", value |-> "3"]}
OrderByClauses ==
  {[field |-> "rank", direction |-> <<>>],
   [field |-> "title", direction |-> <<"desc">>]}
CursorConfigs ==
  {[type |-> t, doc |-> d] : t \in {"after", "before"}, d \in {<<>>, <<"d1">>}}

\* type CollectionOptions: every field optional.
QueryDescriptors ==
  [where : {<<>>} \cup {<<s>> : s \in SeqsUpTo(WhereClauses, MaxClauses)},
   orderBy : {<<>>} \cup {<<s>> : s \in SeqsUpTo(OrderByClauses, MaxClauses)},
   limit : {<<>>, <<0>>, <<5>>},
   cursor : {<<>>} \cup {<<c>> : c \in CursorConfigs}]

\* o.direction with "desc" for a direction left out.
Direction_DefaultDesc(o) == OrDefault(o.direction, "desc")

\* o.direction ?? "asc"
Direction(o) == OrDefault(o.direction, "asc")

\* if (opts.where?.length) for (const clause of opts.where) push(w(...))
WhereConstraints(o) ==
  IF o.where # <<>> /\ Len(o.where[1]) > 0
    THEN [i \in 1..Len(o.where[1]) |->
            [kind |-> "where", field |-> o.where[1][i].field,
             operator |-> o.where[1][i].operator, value |-> o.where[1][i].value]]
    ELSE <<>>

\* if (opts.orderBy?.length) for (const o of opts.orderBy) push(ob(...))
OrderByConstraints(o) ==
  IF o.orderBy # <<>> /\ Len(o.orderBy[1]) > 0
    THEN [i \in 1..Len(o.orderBy[1]) |->
            [kind |-> "orderBy", field |-> o.orderBy[1][i].field,
             direction |-> Direction(o.orderBy[1][i])]]
    ELSE <<>>

\* if (typeof opts.limit === "number") push(lm(opts.limit))
LimitConstraints(o) ==
  IF o.limit # <<>> THEN <<[kind |-> "limit", n |-> o.limit[1]]>> ELSE <<>>

\* lm(opts.limit): the store's limit() takes positive numbers only and throws
\* an invalid-argument error for zero and below.
LimitThrows(o) == o.limit # <<>> /\ o.limit[1] <= 0

\* CursorConstraints without its tests of cursor.doc.
CursorConstraints_NullDocEmits(o) ==
  (IF o.cursor # <<>> /\ o.cursor[1].type = "after"
     THEN <<[kind |-> "startAfter", doc |-> o.cursor[1].doc]>> ELSE <<>>)
  \o (IF o.cursor # <<>> /\ o.cursor[1].type = "before"
        THEN <<[kind |-> "endBefore", doc |-> o.cursor[1].doc]>> ELSE <<>>)

\* if (opts.cursor?.type === "after" && opts.cursor.doc) push(startAfter(doc));
\* if (opts.cursor?.type === "before" && opts.cursor.doc) push(endBefore(doc))
CursorConstraints(o) ==
  (IF o.cursor # <<>> /\ o.cursor[1].type = "after" /\ o.cursor[1].doc # <<>>
     THEN <<[kind |-> "startAfter", doc |-> o.cursor[1].doc[1]]>> ELSE <<>>)
  \o (IF o.cursor # <<>> /\ o.cursor[1].type = "before" /\ o.cursor[1].doc # <<>>
        THEN <<[kind |-> "endBefore", doc |-> o.cursor[1].doc[1]]>> ELSE <<>>)

\* buildConstraints(opts): nothing for no descriptor, else the four groups
\* in the order they are pushed; a limit the store refuses ends the call
\* with the filters and the sorts pushed.
buildConstraints(o) ==
  IF o = <<>> THEN <<>>
  ELSE IF LimitThrows(o[1]) THEN WhereConstraints(o[1]) \o OrderByConstraints(o[1])
  ELSE WhereConstraints(o[1]) \o OrderByConstraints(o[1])
       \o LimitConstraints(o[1]) \o CursorConstraints(o[1])

\* The error buildConstraints(opts) throws, "none" when it returns.
buildConstraintsThrows(o) ==
  IF o # <<>> /\ LimitThrows(o[1]) THEN "invalid-argument" ELSE "none"

BuildInit ==
  /\ opts = <<>>
  /\ constraints = <<>>
  /\ buildThrew = <<>>

\* A caller has a descriptor, or none, to build a query from.
BuildInputs == {<<>>} \cup {<<o>> : o \in QueryDescriptors}

\* useCollection's queryFn calls buildConstraints(options); a refetch calls
\* it again on the same options.
buildConstraintsCall ==
  /\ Len(constraints) < 2
  /\ constraints' = Append(constraints, buildConstraints(opts))
  /\ buildThrew' = Append(buildThrew, buildConstraintsThrows(opts))
  /\ UNCHANGED <<opts, readVars, writeVars, hookVars, statsVars, cacheVars>>

\* =============================================================== query keys
\* JavaScript values as JSON.stringify sees them. An object keeps its
\* properties in the order they were put in.
StrV(x) == [t |-> "str", s |-> x]
NumV(n) == [t |-> "num", n |-> n]
NaNV == [t |-> "nan"]
NullV == [t |-> "null"]
UndefV == [t |-> "undef"]
SnapV(id) == [t |-> "snap", id |-> id]
ArrV(items) == [t |-> "arr", items |-> items]
ObjV(props) == [t |-> "obj", props |-> props]
P(name, value) == [n |-> name, v |-> value]

\* The pieces of a string put together.
RECURSIVE Concat(_)
Concat(pieces) == IF pieces = <<>> THEN "" ELSE Head(pieces) \o Concat(Tail(pieces))

\* The strings of ss with sep between them.
RECURSIVE Join(_, _)
Join(ss, sep) ==
  IF ss = <<>> THEN ""
  ELSE IF Len(ss) = 1 THEN ss[1]
  ELSE ss[1] \o sep \o Join(Tail(ss), sep)

\* JSON.stringify(v): a property whose value is undefined is left out, an
\* undefined element of an array and NaN are written null, a document
\* snapshot is written as the object of its own properties, the document's
\* key among them.
RECURSIVE JSONStringify(_)
JSONStringify(v) ==
  CASE v.t = "str" -> "\"" \o v.s \o "\""
    [] v.t = "num" -> Concat(DecimalDigits(v.n))
    [] v.t \in {"nan", "null", "undef"} -> "null"
    [] v.t = "snap" -> "{\"_key\":\"" \o v.id \o "\"}"
    [] v.t = "arr" ->
         "[" \o Join([i \in 1..Len(v.items) |-> JSONStringify(v.items[i])], ",") \o "]"
    [] OTHER ->
         LET kept == SelectSeq(v.props, LAMBDA p : p.v # UndefV)
         IN "{" \o Join([i \in 1..Len(kept) |->
                           "\"" \o kept[i].n \o "\":" \o JSONStringify(kept[i].v)], ",")
                \o "}"

\* queryKey: [keyPrefix, "collection", collectionName, JSON.stringify(options ?? {})]
QueryKey(c, collectionName, options) ==
  <<getKeyPrefix(c), "collection", collectionName,
    JSONStringify(OrDefault(options, ObjV(<<>>)))>>

\* Filter clauses, as callers write them.
RankIs(value) ==
  ObjV(<<P("field", StrV("rank")), P("operator", StrV("==")), P("value", value)>>)

\* The descriptors callers hand to useCollection: none, the empty one, one
\* whose limit is undefined, the same filter and limit put in in either
\* order, a filter on NaN and one on null, and cursors after d1, after d2
\* and after nothing.
KeyOptions ==
  {<<>>,
   <<ObjV(<<>>)>>,
   <<ObjV(<<P("limit", UndefV)>>)>>,
   <<ObjV(<<P("where", ArrV(<<RankIs(NumV(1))>>)), P("limit", NumV(1))>>)>>,
   <<ObjV(<<P("limit", NumV(1)), P("where", ArrV(<<RankIs(NumV(1))>>))>>)>>,
   <<ObjV(<<P("where", ArrV(<<RankIs(NaNV)>>))>>)>>,
   <<ObjV(<<P("where", ArrV(<<RankIs(NullV)>>))>>)>>,
   <<ObjV(<<P("cursor", ObjV(<<P("type", StrV("after")), P("doc", SnapV("d1"))>>))>>)>>,
   <<ObjV(<<P("cursor", ObjV(<<P("type", StrV("after")), P("doc", SnapV("d2"))>>))>>)>>,
   <<ObjV(<<P("cursor", ObjV(<<P("type", StrV("after")), P("doc", NullV)>>))>>)>>}

\* Most query keys one run builds.
MaxKeys == 2

\* A render of useCollection(collectionName, options) builds its query key.
useCollection_queryKey(collectionName, options) ==
  /\ Len(keyCalls) < MaxKeys
  /\ keyCalls' = Append(keyCalls, [col |-> collectionName, options |-> options,
                                   key |-> QueryKey(cfg, collectionName, options)])
  /\ UNCHANGED <<cache, obs, readVars, writeVars, hookVars, statsVars, buildVars>>

CacheInit ==
  /\ keyCalls = <<>>
  /\ cache = <<>>
  /\ obs = <<>>

\* ============================================================= query cache
\* The useCollection instances of the application, each with its own
\* behavior argument, over the one QueryClient.
Instances == {"h1", "h2"}

\* A query the cache has just built, and an instance not rendered yet.
\* withMeta and pref are those of the queryFn the query was last fetched
\* with; fetched counts its store fetches that succeeded.
NewQuery ==
  [status |-> "pending", fetchStatus |-> "idle", data |-> NoData, error |-> "none",
   isInvalidated |-> FALSE, withMeta |-> FALSE, pref |-> Undefined,
   fetches |-> 0, fetched |-> 0]
Unmounted ==
  [mounted |-> FALSE, col |-> "none", key |-> <<>>, withMeta |-> FALSE,
   pref |-> Undefined, depSuccess |-> FALSE, recorded |-> 0]

\* useQuery on mount, with refetchOnMount: false: a query without data is
\* fetched unless a fetch of it is under way; a query with data is not.
FetchesOnMount(e) == e.fetchStatus = "idle" /\ e.data = NoData

\* The query starts a fetch with the queryFn of an instance whose behavior
\* has withMeta and pref.
StartFetch(e, withMeta, pref) ==
  [Fetching(e) EXCEPT !.withMeta = withMeta, !.pref = pref]

\* recordReadStats run n times on storage st.
RECURSIVE RecordTimes(_, _, _, _)
RecordTimes(st, col, t, n) ==
  IF n = 0 THEN st ELSE RecordTimes(recordReadStats(st, col, t), col, t, n - 1)

\* The instances rendered on query key k.
Observers(k) == {h \in Instances : obs[h].mounted /\ obs[h].key = k}

\* useCollection(collectionName, options, behavior) is rendered for the
\* first time by instance h: its query is found in the cache or built, is
\* fetched when useQuery says so, and the effect on res.isSuccess runs.
cache_mount(h, collectionName, options, withMeta, pref) ==
  LET k == QueryKey(cfg, collectionName, options)
      found == IF k \in DOMAIN cache THEN cache[k] ELSE NewQuery
      e == IF FetchesOnMount(found) THEN StartFetch(found, withMeta, pref) ELSE found
      ref == safeStorage(env.storage, env.platform)
      records == RecordsRead(e)
  IN /\ ~obs[h].mounted
     /\ cache' = (k :> e) @@ cache
     /\ obs' = [obs EXCEPT ![h] =
          [mounted |-> TRUE, col |-> collectionName, key |-> k,
           withMeta |-> withMeta, pref |-> pref,
           depSuccess |-> IsSuccess(e),
           recorded |-> IF records THEN 1 ELSE 0]]
     /\ StoreBecomes(ref, IF records
                             THEN recordReadStats(StoreOf(ref), collectionName, clock)
                             ELSE StoreOf(ref))
     /\ UNCHANGED <<keyCalls, clock, last, readVars, writeVars, hookVars, buildVars>>

\* The render of the instances on query k after its state became e, and
\* their effects: an instance whose res.isSuccess changed runs the effect,
\* which records a read when the query is a success.
RenderObservers(k, e) ==
  LET ref == safeStorage(env.storage, env.platform)
      runs == {h \in Observers(k) : IsSuccess(e) # obs[h].depSuccess}
      recorders == {h \in runs : RecordsRead(e)}
  IN /\ obs' = [h \in Instances |->
                  IF h \in runs
                    THEN [obs[h] EXCEPT !.depSuccess = IsSuccess(e),
                                        !.recorded = IF h \in recorders THEN @ + 1 ELSE @]
                    ELSE obs[h]]
     /\ StoreBecomes(ref, RecordTimes(StoreOf(ref), k[3], clock, Cardinality(recorders)))

\* The fetch of query k settles with what getDocsByMode answered: queryFn
\* returns the rows, with the metadata when its own withMeta is set, or
\* rejects; the instances on k are rendered again.
cache_queryFnSettles(k, out) ==
  LET e == IF out.status = "ok"
             THEN [cache[k] EXCEPT !.fetchStatus = "idle", !.status = "success",
                                   !.error = "none", !.isInvalidated = FALSE,
                                   !.data = CollectionData(out.value, cache[k].withMeta),
                                   !.fetched = @ + 1]
             ELSE [cache[k] EXCEPT !.fetchStatus = "idle", !.status = "error",
                                   !.error = out.err]
  IN /\ k \in DOMAIN cache
     /\ cache[k].fetchStatus = "fetching"
     /\ cache' = [cache EXCEPT ![k] = e]
     /\ RenderObservers(k, e)
     /\ UNCHANGED <<keyCalls, clock, last, readVars, writeVars, hookVars, buildVars>>

\* onSuccess of a write hook on collectionName calls qc.invalidateQueries({
\* queryKey: [prefix, "collection", collectionName] }): the queries under
\* that key are marked invalid, and those an instance is rendered on are
\* fetched again, with the queryFn they were last fetched with.
cache_invalidateQueries(collectionName) ==
  LET hit == {k \in DOMAIN cache :
                k[1] = getKeyPrefix(cfg) /\ k[2] = "collection" /\ k[3] = collectionName}
  IN /\ hit # {}
     /\ \A k \in hit : Observers(k) # {} => cache[k].fetches < MaxFetches
     /\ cache' = [k \in DOMAIN cache |->
                    IF k \notin hit THEN cache[k]
                    ELSE IF Observers(k) = {} THEN [cache[k] EXCEPT !.isInvalidated = TRUE]
                    ELSE [StartFetch(cache[k], cache[k].withMeta, cache[k].pref)
                            EXCEPT !.isInvalidated = TRUE]]
     /\ UNCHANGED <<keyCalls, obs, statsVars, readVars, writeVars, hookVars, buildVars>>

\* ------------------------------------------------------- specifications
\* What addDoc can answer, and what updateDoc and deleteDoc can.
AddAnswers == {Acked(i) : i \in AutoIds} \cup {Failed(e) : e \in WriteErrors}
WriteAnswers == {Acked("none")} \cup {Failed(e) : e \in WriteErrors \cup {"not-found"}}


WriteNext ==
  \/ \E m \in active, col \in Collections, inv \in {<<>>, <<TRUE>>, <<FALSE>>},
        log \in {<<>>, <<TRUE>>, <<FALSE>>}, bs \in {"none", "trim", "throws"}, data \in AddInputs :
       W(useAddDocument_mutate(m, col, inv, log, bs, data))
  \/ \E m \in active : W(useAddDocument_beforeSaveSettles(m))
  \/ \E m \in active, out \in AddAnswers, thrown \in LogThrowPoints :
       W(useAddDocument_addDocSettles(m, out, thrown))
  \/ \E m \in active, out \in AddAnswers : W(useAddDocument_logSettles(m, out))
  \/ \E m \in active : W(useAddDocument_onSuccess(m))
  \/ \E m \in active : W(useAddDocument_onError(m))
  \/ \E m \in active, col \in Collections, log \in {<<>>, <<TRUE>>, <<FALSE>>},
        bs \in {"none", "trim", "throws"}, data \in UpdateInputs :
       W(useUpdateDocument_mutate(m, col, log, bs, data))
  \/ \E m \in active : W(useUpdateDocument_beforeSaveSettles(m))
  \/ \E m \in active :
       /\ mut[m].pc = "preRead"
       /\ \E out \in PreReadAnswers(mut[m].col, mut[m].id) :
            W(useUpdateDocument_preReadSettles(m, out))
  \/ \E m \in active, out \in WriteAnswers, thrown \in LogThrowPoints :
       W(useUpdateDocument_updateDocSettles(m, out, thrown))
  \/ \E m \in active, out \in AddAnswers : W(useUpdateDocument_logSettles(m, out))
  \/ \E m \in active : W(useUpdateDocument_onSuccess(m))
  \/ \E m \in active : W(useUpdateDocument_onError(m))
  \/ \E m \in active, col \in Collections,
        log \in {<<>>, <<TRUE>>, <<FALSE>>}, id \in TargetIds :
       W(useDeleteDocument_mutate(m, col, log, id))
  \/ \E m \in active :
       /\ mut[m].pc = "preRead"
       /\ \E out \in PreReadAnswers(mut[m].col, mut[m].id) :
            W(useDeleteDocument_preReadSettles(m, out))
  \/ \E m \in active, out \in WriteAnswers, thrown \in LogThrowPoints :
       W(useDeleteDocument_deleteDocSettles(m, out, thrown))
  \/ \E m \in active, out \in AddAnswers : W(useDeleteDocument_logSettles(m, out))
  \/ \E m \in active : W(useDeleteDocument_onSuccess(m))
  \/ \E m \in active : W(useDeleteDocument_onError(m))

\* The configuration that leaves every optional field out.
BaseConfig ==
  [keyPrefix |-> Undefined, getUserId |-> Undefined,
   includePreviousData |-> FALSE, resolveLogCollection |-> Undefined,
   ignoreUndefinedProperties |-> FALSE]

\* The hosting application has built its configuration; no hook has run yet.
Init == ReadInit /\ WriteInit /\ HookInit /\ StatsInit /\ BuildInit /\ CacheInit

\* Init under the configuration that leaves every optional field out.
InitRead ==
  /\ ReadInit
  /\ WriteInit
  /\ cfg = BaseConfig
  /\ HookInit
  /\ StatsInit
  /\ BuildInit
  /\ CacheInit

\* The resolver on its own.
SpecRead == InitRead /\ [][ReadNext]_vars

\* One invocation of a write hook, under every configuration.
SpecWrite == Init /\ [][WriteNext]_vars

\* Two invocations of useUpdateDocument("todos", { enableLogging: true }) on
\* document d1, under cfg.logging.includePreviousData; each runs from one
\* await to the next, the two in any order.
Racers == {"m1", "m2"}

\* What each invocation is handed: the same document, its own title.
RaceInput(m) == [id |-> "d1", title |-> IF m = "m1" THEN "a" ELSE "b"]

InitRace ==
  /\ ReadInit
  /\ cfg \in {c \in Configs : /\ c.includePreviousData
                              /\ c.keyPrefix = Undefined
                              /\ c.getUserId = "u1"
                              /\ c.resolveLogCollection = Undefined}
  /\ active = Racers
  /\ mut = [m \in active |-> IdleMutation]
  /\ db = InitialDb
  /\ invalidated = {}
  /\ warns = <<>>
  /\ errCalls = <<>>
  /\ trace = <<>>
  /\ HookInit
  /\ StatsInit
  /\ BuildInit
  /\ CacheInit

RaceNext ==
  \/ \E m \in active :
       W(useUpdateDocument_mutate(m, "todos", <<TRUE>>, "none", RaceInput(m)))
  \/ \E m \in active :
       /\ mut[m].pc = "preRead"
       /\ \E out \in PreReadAnswers(mut[m].col, mut[m].id) :
            W(useUpdateDocument_preReadSettles(m, out))
  \/ \E m \in active, out \in WriteAnswers, thrown \in LogThrowPoints :
       W(useUpdateDocument_updateDocSettles(m, out, thrown))
  \/ \E m \in active, out \in AddAnswers : W(useUpdateDocument_logSettles(m, out))
  \/ \E m \in active : W(useUpdateDocument_onSuccess(m))
  \/ \E m \in active : W(useUpdateDocument_onError(m))

SpecRace == InitRace /\ [][RaceNext]_vars

\* Collections the read hooks are mounted on, the cache preferences they
\* are given, and the rows the store answers their queries with.
HookCollections == {"todos"}
HookPreferences == {Undefined, "cache-first"}
HookRows == {<<>>, <<"d1">>, <<"d2", "d3">>, <<"d3", "d1">>}
HookAnswers(src) ==
  {out \in Answers(src) :
     (out.status = "ok" /\ rfn = "getDocsByMode") => out.value.docs \in HookRows}

\* The read hooks over the resolver; the application reads the statistics
\* once the hook has recorded a read.
HookNext ==
  \/ \E col \in HookCollections, pref \in HookPreferences, withMeta \in BOOLEAN,
        enabledOpt \in EnabledOptions :
       useCollection_mount(col, pref, withMeta, enabledOpt)
  \/ useCollection_queryFnSettles
  \/ useCollection_effects
  \/ useCollection_refetch
  \/ \E col \in HookCollections, documentId \in DocumentIds, pref \in HookPreferences,
        enabledOpt \in EnabledOptions :
       useDocument_mount(col, documentId, pref, enabledOpt)
  \/ useDocument_queryFnSettles
  \/ \E out \in HookAnswers("cache") :
       out.status = "ok" /\ R(getDocsFromCacheReturns(out.value))
  \/ \E e \in StoreErrors : R(getDocsFromCacheThrows(e))
  \/ \E out \in HookAnswers("server") : R(getDocsFromServerSettles(out))
  \/ \E out \in HookAnswers("sdk") : R(getDocsSettles(out))
  \/ \E snap \in DocSnaps("cache", rref) : R(getDocFromCacheReturns(snap))
  \/ \E e \in StoreErrors : R(getDocFromCacheThrows(e))
  \/ \E out \in HookAnswers("server") : R(getDocFromServerSettles(out))
  \/ \E out \in HookAnswers("sdk") : R(getDocSettles(out))
  \/ \E col \in HookCollections, given \in BOOLEAN :
       q.recorded > 0 /\ S(getCollectionStatsCall(col, given))

\* A host, with no hook mounted yet.
InitHook ==
  /\ ReadInit
  /\ WriteInit
  /\ cfg = BaseConfig
  /\ env \in Envs
  /\ q = NoQuery
  /\ hookMem = EmptyStore
  /\ StatsInit
  /\ BuildInit
  /\ CacheInit

\* One read hook from its first render on, under every host.
SpecHook == InitHook /\ [][HookNext]_vars

\* Collections whose reads are recorded in this run.
ReadCollections == {"todos"}

StatsNext ==
  \/ \E col \in ReadCollections : S(recordReadStatsCall(col, env.storage))
  \/ \E col \in StatsCollections : S(getCollectionStatsCall(col, env.storage))
  \/ \E col \in StatsCollections : S(clearCollectionStatsCall(col, env.storage))
  \/ S(clearAllCollectionStatsCall(env.storage))
  \/ \E e \in ForeignEntries : S(ForeignSetItem(e, env.storage))
  \/ S(Tick)

\* A host whose storage, the adapter it hands over or the platform's, holds
\* what the application put there.
InitStats ==
  /\ ReadInit
  /\ WriteInit
  /\ cfg = BaseConfig
  /\ env \in {e \in Envs : e.defaultEnabled = <<>>}
  /\ q = NoQuery
  /\ hookMem = EmptyStore
  /\ custom \in (IF env.storage THEN InitialStores ELSE {EmptyStore})
  /\ local \in (IF ~env.storage /\ env.platform = "present" THEN InitialStores ELSE {EmptyStore})
  /\ clock = 0
  /\ last = NoCall
  /\ BuildInit
  /\ CacheInit

\* The statistics functions, called in any order on the host's storages.
SpecStats == InitStats /\ [][StatsNext]_vars

\* A descriptor, or none, as a caller hands it to useCollection.
InitBuild ==
  /\ ReadInit
  /\ WriteInit
  /\ cfg = BaseConfig
  /\ HookInit
  /\ StatsInit
  /\ opts \in BuildInputs
  /\ constraints = <<>>
  /\ buildThrew = <<>>
  /\ CacheInit

BuildNext == buildConstraintsCall

\* buildConstraints on every descriptor.
SpecBuild == InitBuild /\ [][BuildNext]_vars

\* Hosts with and without a key prefix of their own.
InitKey ==
  /\ ReadInit
  /\ WriteInit
  /\ cfg \in {BaseConfig, [BaseConfig EXCEPT !.keyPrefix = "app"]}
  /\ HookInit
  /\ StatsInit
  /\ BuildInit
  /\ CacheInit

KeyNext ==
  \E collectionName \in Collections, options \in KeyOptions :
    useCollection_queryKey(collectionName, options)

\* The query keys of any two renders of useCollection.
SpecKey == InitKey /\ [][KeyNext]_vars

\* The descriptors the instances are rendered with, and what the store
\* answers their reads with.
CacheOptions == {<<>>, <<ObjV(<<P("limit", NumV(1))>>)>>}
CacheAnswers ==
  {Resolved([src |-> "sdk", docs |-> rows]) : rows \in {<<>>, <<"d1">>}}
  \cup {Rejected("sdk", "unavailable")}

\* A host that hands the hooks a storage adapter of its own, empty so far.
InitCache ==
  /\ ReadInit
  /\ WriteInit
  /\ cfg = BaseConfig
  /\ env = [storage |-> TRUE, platform |-> "absent", defaultEnabled |-> <<>>]
  /\ q = NoQuery
  /\ hookMem = EmptyStore
  /\ StatsInit
  /\ BuildInit
  /\ keyCalls = <<>>
  /\ cache = <<>>
  /\ obs = [h \in Instances |-> Unmounted]

CacheNext ==
  \/ \E h \in Instances, options \in CacheOptions, withMeta \in BOOLEAN,
        pref \in {Undefined, "server-only"} :
       cache_mount(h, "todos", options, withMeta, pref)
  \/ \E k \in DOMAIN cache, out \in CacheAnswers : cache_queryFnSettles(k, out)
  \/ cache_invalidateQueries("todos")

\* Two useCollection instances over one query cache and one storage.
SpecCache == InitCache /\ [][CacheNext]_vars


\* ------------------------------------------------------------------ claims

\* C1: in cache-first mode, for getDocsByMode and getDocByMode alike, a cache
\* read that answers empty (zero rows / document does not exist) is followed
\* by exactly one server read, whose outcome is the result; a cache read that
\* answers non-empty is the result and no server read is made.
C1_CacheFirstFallsBackOnEmpty ==
  (rmode = "cache-first" /\ rcacheOut.status = "ok") =>
    LET answeredEmpty ==
          IF rfn = "getDocByMode" THEN ~rcacheOut.value.exists
                                  ELSE Len(rcacheOut.value.docs) = 0
    IN IF answeredEmpty
         THEN /\ rcalls = <<"cache", "server">>
              /\ rpc = "await" => rinflight = "server"
              /\ rpc = "done" => /\ rserverOut.status # "none"
                                 /\ rresult = rserverOut
         ELSE /\ rpc = "done"
              /\ rcalls = <<"cache">>
              /\ rserverOut = NoOutcome
              /\ rresult = rcacheOut

C1_Witness ==
  /\ rfn = "getDocByMode" /\ rmode = "cache-first" /\ rpc = "done"
  /\ rcacheOut.status = "ok" /\ ~rcacheOut.value.exists
  /\ rresult.status = "ok" /\ rresult.src = "server"

\* C2: in cache-first mode a cache read that throws is never what the caller
\* sees: exactly one server read follows and the caller's outcome, success or
\* failure, is the server read's.
C2_CacheFailureNeverSurfaces ==
  (rmode = "cache-first" /\ rcacheOut.status = "error") =>
    /\ rcalls = <<"cache", "server">>
    /\ rpc = "await" => rinflight = "server"
    /\ rpc = "done" => /\ rserverOut.status # "none"
                       /\ rresult = rserverOut
                       /\ rresult.src = "server"

C2_Witness ==
  /\ rfn = "getDocsByMode" /\ rmode = "cache-first" /\ rpc = "done"
  /\ rcacheOut.status = "error"
  /\ rresult.status = "error" /\ rresult.src = "server"

\* C3: in cache-only mode no server read and no combined read is ever made;
\* the cache read's outcome, a failure or an empty snapshot included, is the
\* caller's outcome.
C3_CacheOnlyNeverReachesServer ==
  (rmode = "cache-only") =>
    /\ rcalls = <<"cache">>
    /\ rserverOut = NoOutcome /\ rsdkOut = NoOutcome
    /\ rpc = "await" => rinflight = "cache"
    /\ rpc = "done" => rcacheOut.status # "none" /\ rresult = rcacheOut

C3_Witness ==
  /\ rfn = "getDocsByMode" /\ rmode = "cache-only" /\ rpc = "done"
  /\ rcacheOut.status = "ok" /\ Len(rcacheOut.value.docs) = 0
  /\ rresult = rcacheOut

\* C4: server-only mode makes exactly one server read and never reads the
\* cache; default mode, also when no preference is given, makes exactly one
\* combined read and no cache or server read; the outcome of that one read,
\* a failure included, is the caller's outcome.
C4_ServerOnlyAndDefaultReadOnce ==
  /\ (rfn # "none" /\ rpref = Undefined) => rmode = "default"
  /\ (rmode = "server-only") =>
       /\ rcalls = <<"server">>
       /\ rcacheOut = NoOutcome /\ rsdkOut = NoOutcome
       /\ rpc = "done" => rserverOut.status # "none" /\ rresult = rserverOut
  /\ (rmode = "default") =>
       /\ rcalls = <<"sdk">>
       /\ rcacheOut = NoOutcome /\ rserverOut = NoOutcome
       /\ rpc = "done" => rsdkOut.status # "none" /\ rresult = rsdkOut

C4_Witness ==
  /\ rfn = "getDocsByMode" /\ rpref = Undefined /\ rpc = "done"
  /\ rcalls = <<"sdk">> /\ rresult.status = "error"

\* The cached collection reads of collection c under key prefix p, and the
\* cached read of its document i.
CollectionKeys(p, c) ==
  {k \in CachedKeys : k[1] = p /\ k[2] = "collection" /\ k[3] = c}
DocumentKey(p, c, i) ==
  {k \in CachedKeys : k = <<p, "document", c, i>>}

\* The prefix and the log collection a configuration stands for.
PrefixOf(c) == IF c.keyPrefix = Undefined THEN "rf" ELSE c.keyPrefix
LogCollectionOf(c, name) ==
  IF c.resolveLogCollection = Undefined THEN name \o "_log" ELSE name \o "_audit"

\* The cached keys a successful mutation r is to invalidate: the collection's
\* reads, the document's read for update and delete, the log collection's
\* reads when logging is on.
KeysToInvalidate(r) ==
  CollectionKeys(PrefixOf(cfg), r.col)
  \cup (IF r.hook = "useAddDocument" THEN {}
        ELSE DocumentKey(PrefixOf(cfg), r.col, r.id))
  \cup (IF r.enableLogging
          THEN CollectionKeys(PrefixOf(cfg), LogCollectionOf(cfg, r.col))
          ELSE {})

\* The value a successful mutation r returns.
ValueToReturn(r) ==
  CASE r.hook = "useAddDocument" -> <<r.data @@ [id |-> r.refId]>>
    [] r.hook = "useUpdateDocument" -> <<r.data>>
    [] OTHER -> <<r.id>>

LogEvents == {"log:call", "log:ok", "log:fail", "log:threw"}

\* C5: a write hook invalidates cached reads only after its primary store
\* write was acknowledged: never while that write is pending, and never when
\* it, or a step before it such as beforeSave, failed.
C5_InvalidationOnlyAfterAcknowledgedWrite ==
  /\ \A i \in 1..Len(trace) :
       trace[i].ev \in {"onSuccess", "invalidate"} =>
         \E j \in 1..(i - 1) : trace[j] = Ev(trace[i].m, "primary:ok")
  /\ \A m \in active : mut[m].primary # "ok" => mut[m].inv = {}
  /\ (\A m \in active : mut[m].primary # "ok") => invalidated = {}

C5_Witness ==
  \E m \in active :
    /\ mut[m].hook = "useUpdateDocument" /\ mut[m].status = "success"
    /\ mut[m].primary = "ok" /\ mut[m].inv # {} /\ invalidated # {}

C7_LogOnlyAfterPrimary ==
  /\ \A i \in 1..Len(trace) :
       trace[i].ev \in LogEvents =>
         \E j \in 1..(i - 1) : trace[j] = Ev(trace[i].m, "primary:ok")
  /\ \A m \in active :
       mut[m].primary # "ok" =>
         /\ mut[m].log = "none"
         /\ \A c \in AllCollections \ Collections : db[c] = EmptyRec

C7_Witness ==
  \E m \in active :
    /\ mut[m].hook = "useUpdateDocument" /\ mut[m].enableLogging
    /\ mut[m].primary = "ok" /\ mut[m].log = "ok"
    /\ db[LogCollectionOf(cfg, mut[m].col)] # EmptyRec

\* C8 as claimed: with logging on, the mutated collection is invalidated
\* before the audit-log write runs.
C8_InvalidationBeforeLogWrite ==
  \A i \in 1..Len(trace) :
    trace[i].ev = "log:call" =>
      \E j \in 1..(i - 1) : trace[j] = Ev(trace[i].m, "invalidate")

\* C8 as amended: with logging on, the audit-log write has run and settled
\* (written or failed) before the hook invalidates anything.
C8_LogWriteSettlesBeforeInvalidation ==
  /\ \A m \in active :
       (\E i \in 1..Len(trace) : trace[i] = Ev(m, "onSuccess")) =>
         /\ mut[m].log # "pending"
         /\ mut[m].enableLogging => mut[m].log \in {"ok", "error"}
  /\ \A i \in 1..Len(trace), j \in 1..Len(trace) :
       (/\ trace[i].ev \in {"onSuccess", "invalidate"}
        /\ trace[j].ev \in LogEvents
        /\ trace[j].m = trace[i].m) => j < i

C8_Witness ==
  \E m \in active :
    /\ mut[m].hook = "useAddDocument" /\ mut[m].enableLogging
    /\ mut[m].log = "ok" /\ mut[m].status = "success" /\ mut[m].inv # {}

\* C9 as claimed: on success create invalidates exactly the collection's
\* cached reads, update and delete those and the document's key, and all
\* three the log collection's reads exactly when enableLogging is on.
C9_InvalidatedKeysAsClaimed ==
  \A m \in active :
    mut[m].status = "success" => mut[m].inv = KeysToInvalidate(mut[m])

\* C9 as amended: as claimed, but create called with invalidate: false
\* invalidates nothing.
C9_InvalidatedKeys ==
  \A m \in active :
    mut[m].status = "success" =>
      /\ mut[m].inv = IF mut[m].hook = "useAddDocument" /\ mut[m].invalidateOpt = <<FALSE>>
                        THEN {} ELSE KeysToInvalidate(mut[m])
      /\ invalidated = mut[m].inv

C9_Witness ==
  \E m \in active :
    /\ mut[m].hook = "useUpdateDocument" /\ mut[m].enableLogging
    /\ mut[m].status = "success"
    /\ <<PrefixOf(cfg), "document", mut[m].col, mut[m].id>> \in mut[m].inv
    /\ CollectionKeys(PrefixOf(cfg), LogCollectionOf(cfg, mut[m].col)) \subseteq mut[m].inv

\* C10 as claimed: for every input record, create returns the caller's fields
\* plus one id field holding the id the store assigned, and no createdAt /
\* updatedAt the caller did not supply.
C10_CreateResultAsClaimed ==
  \A m \in active :
    LET r == mut[m] IN
    (r.hook = "useAddDocument" /\ r.status = "success") =>
      LET res == r.result[1] IN
      /\ DOMAIN res = DOMAIN r.data \cup {"id"}
      /\ res.id = r.refId
      /\ \A k \in DOMAIN r.data \ {"id"} : res[k] = r.data[k]

\* C10 as amended: that holds for every input record without a field named
\* id; when the input has an id field the result is the input itself, its id
\* the caller's and not the store's.
C10_CreateResult ==
  \A m \in active :
    LET r == mut[m] IN
    (r.hook = "useAddDocument" /\ r.status = "success") =>
      LET res == r.result[1] IN
      /\ r.refId \in AutoIds /\ r.refId \in DOMAIN db[r.col]
      /\ IF "id" \in DOMAIN r.data
           THEN res = r.data
           ELSE /\ DOMAIN res = DOMAIN r.data \cup {"id"}
                /\ res.id = r.refId
                /\ \A k \in DOMAIN r.data : res[k] = r.data[k]
      /\ \A k \in {"createdAt", "updatedAt"} :
           k \in DOMAIN res => (k \in DOMAIN r.data /\ res[k] = r.data[k] /\ res[k] # Now)

C10_Witness ==
  \E m \in active :
    /\ mut[m].hook = "useAddDocument" /\ mut[m].status = "success"
    /\ "id" \notin DOMAIN mut[m].data /\ "createdAt" \notin DOMAIN mut[m].data
    /\ mut[m].result = <<[id |-> mut[m].refId, title |-> " milk "]>>
    /\ db[mut[m].col][mut[m].refId].createdAt = Now

\* C11 as claimed: create with a beforeSave transform stores the transformed
\* field values and returns them too, with the new id.
C11_ResultCarriesTransformAsClaimed ==
  \A m \in active :
    LET r == mut[m] IN
    (r.hook = "useAddDocument" /\ r.beforeSave = "trim" /\ r.status = "success") =>
      /\ db[r.col][r.refId].title = Trim(r.data.title)
      /\ r.result[1].title = Trim(r.data.title)

\* C11 as amended: create with a beforeSave transform stores the transformed
\* field values (with both timestamps), while the value it returns carries
\* the caller's own field values, as they were before the transform.
C11_TransformStoredNotReturned ==
  \A m \in active :
    LET r == mut[m] IN
    (r.hook = "useAddDocument" /\ r.beforeSave = "trim" /\ r.primary = "ok") =>
      /\ r.refId \in DOMAIN db[r.col]
      /\ db[r.col][r.refId].title = Trim(r.data.title)
      /\ db[r.col][r.refId].createdAt = Now
      /\ db[r.col][r.refId].updatedAt = Now
      /\ r.result # <<>>
      /\ r.result[1].title = r.data.title
      /\ \A k \in DOMAIN r.data : r.result[1][k] = r.data[k]

C11_Witness ==
  \E m \in active :
    /\ mut[m].hook = "useAddDocument" /\ mut[m].beforeSave = "trim"
    /\ mut[m].status = "success"
    /\ mut[m].data.title = " milk "
    /\ db[mut[m].col][mut[m].refId].title = "milk"
    /\ mut[m].result[1].title = " milk "

\* The keys under the statistics namespace, and the statistics a storage
\* is to show for a collection that has none.
InNamespace(k) ==
  Len(k) >= 1 /\ k[1] \in {"@romyapps:readCount::", "@romyapps:lastFetched::"}
NoStats == [readCount |-> Num(0), lastFetched |-> <<>>]

\* The entries of storage st outside the keys ks, in order.
Outside(st, ks) == SelectSeq(st, LAMBDA e : e.k \notin ks)

\* C16: whatever the collection's read-count key holds, recordReadStats
\* takes the previous count to be that number, or 0 when the key is absent
\* or not a number, writes back previous + 1 and the current timestamp,
\* and returns the count it wrote; so readCount stays a non-negative integer.
C16_RecordReadCountsFromZero ==
  last.fn = "recordReadStats" =>
    LET stored == getItem(last.before, ReadCountKey(last.col))
        previous == IF stored = <<>> THEN 0
                    ELSE IF Number(stored[1]).nan THEN 0
                    ELSE Number(stored[1]).val
    IN /\ last.ret = <<Num(previous + 1)>>
       /\ getItem(last.after, ReadCountKey(last.col)) = <<String(Num(previous + 1))>>
       /\ getItem(last.after, LastFetchedKey(last.col)) = <<toISOString(last.at)>>
       /\ ~getCollectionStats(last.after, last.col).readCount.nan
       /\ getCollectionStats(last.after, last.col).readCount.val >= 0

\* C18: clearAllCollectionStats leaves no key under the statistics
\* namespace, leaves every other key with the value it had, adds none, and
\* returns the number of namespaced keys there were.
C18_ClearAllRemovesExactlyTheNamespace ==
  last.fn = "clearAllCollectionStats" =>
    /\ \A i \in 1..Len(last.after) : ~InNamespace(last.after[i].k)
    /\ \A i \in 1..Len(last.before) :
         ~InNamespace(last.before[i].k) =>
           getItem(last.after, last.before[i].k) = <<last.before[i].v>>
    /\ \A j \in 1..Len(last.after) : HasItem(last.before, last.after[j].k)
    /\ last.ret = <<Cardinality({i \in 1..Len(last.before) :
                                   InNamespace(last.before[i].k)})>>
    /\ last.ref # "mem" => StoreOf(last.ref) = last.after

C18_Witness ==
  /\ last.fn = "clearAllCollectionStats"
  /\ last.ret = <<4>>
  /\ HasItem(last.before, LastFetchedKey("todos"))
  /\ HasItem(last.after, <<"@romyapps:readCount">>)
  /\ HasItem(last.after, <<"theme">>)

\* C19: clearCollectionStats(C) followed at once by getCollectionStats(C)
\* gives { readCount: 0, lastFetched: null }; clearing twice leaves what
\* clearing once leaves; the statistics of every other collection, and every
\* other key, are as they were.
C19_ClearThenGetIsZero ==
  last.fn = "clearCollectionStats" =>
    /\ getCollectionStats(last.after, last.col) = NoStats
    /\ clearCollectionStats(last.after, last.col) = last.after
    /\ \A c \in StatsCollections \ {last.col} :
         getCollectionStats(last.after, c) = getCollectionStats(last.before, c)
    /\ LET own == {ReadCountKey(last.col), LastFetchedKey(last.col)}
       IN Outside(last.after, own) = Outside(last.before, own)
    /\ last.ref # "mem" =>
         getCollectionStats(StoreOf(last.ref), last.col) = NoStats

C19_Witness ==
  /\ last.fn = "clearCollectionStats" /\ last.col = "todos"
  /\ getItem(last.before, ReadCountKey("todos")) = <<<<"2">>>>
  /\ HasItem(last.before, LastFetchedKey("todos"))
  /\ getCollectionStats(last.after, "users").readCount = Num(1)
  /\ getCollectionStats(last.after, "todos") = NoStats

\* The group a constraint belongs to: filters, sorts, limit, cursor.
Group(c) ==
  CASE c.kind = "where" -> 1
    [] c.kind = "orderBy" -> 2
    [] c.kind = "limit" -> 3
    [] OTHER -> 4

\* The list an optional field of a descriptor holds, none when left out.
Listed(field) == IF field = <<>> THEN <<>> ELSE field[1]

\* C20: for every descriptor buildConstraints emits filters, then sorts,
\* then the limit, then the cursor; the filters and the sorts are those of
\* the descriptor in their input order, a sort without a direction is
\* ascending; and a second run on the same descriptor emits the same.
C20_ConstraintOrder ==
  /\ \A n \in 1..Len(constraints) :
       LET cs == constraints[n]
           filters == SelectSeq(cs, LAMBDA c : c.kind = "where")
           sorts == SelectSeq(cs, LAMBDA c : c.kind = "orderBy")
       IN /\ \A i \in 1..Len(cs), j \in 1..Len(cs) :
               i < j => Group(cs[i]) <= Group(cs[j])
          /\ Cardinality({i \in 1..Len(cs) : Group(cs[i]) = 3}) <= 1
          /\ Cardinality({i \in 1..Len(cs) : Group(cs[i]) = 4}) <= 1
          /\ opts = <<>> => cs = <<>>
          /\ opts # <<>> =>
               /\ Len(filters) = Len(Listed(opts[1].where))
               /\ \A i \in 1..Len(filters) :
                    /\ filters[i].field = Listed(opts[1].where)[i].field
                    /\ filters[i].operator = Listed(opts[1].where)[i].operator
                    /\ filters[i].value = Listed(opts[1].where)[i].value
               /\ Len(sorts) = Len(Listed(opts[1].orderBy))
               /\ \A i \in 1..Len(sorts) :
                    /\ sorts[i].field = Listed(opts[1].orderBy)[i].field
                    /\ sorts[i].direction =
                         IF Listed(opts[1].orderBy)[i].direction = <<>> THEN "asc"
                         ELSE Listed(opts[1].orderBy)[i].direction[1]
  /\ Len(constraints) = 2 => constraints[1] = constraints[2]

C20_Witness ==
  /\ Len(constraints) = 2
  /\ Len(constraints[2]) = 6
  /\ constraints[2][1].kind = "where" /\ constraints[2][2].kind = "where"
  /\ constraints[2][1].field # constraints[2][2].field
  /\ constraints[2][3] = [kind |-> "orderBy", field |-> "rank", direction |-> "asc"]
  /\ constraints[2][4].kind = "orderBy"
  /\ constraints[2][5].kind = "limit"
  /\ constraints[2][6].kind = "endBefore"
  /\ opts[1].orderBy[1][1].direction = <<>>

\* The query of the mounted hook has settled and the render after it, with
\* the effects the hook has, is over.
Rendered ==
  /\ q.hook # "none" /\ q.fetchStatus = "idle"
  /\ q.hook = "useCollection" =>
       (IsSuccess(q) = q.depSuccess /\ <<IsError(q), q.error>> = q.depError)

\* C12: every record a collection read or a document read returns carries,
\* as its id, the store's identifier of its snapshot, whatever fields the
\* stored data holds; the records of one result have distinct ids; a
\* document that does not exist is returned as null.
C12_RecordIdIsStoreId ==
  (q.status = "success" /\ q.snapshot # NoSnap) =>
    IF q.hook = "useCollection"
      THEN /\ Len(q.data.value) = Len(q.snapshot.docs)
           /\ \A i \in 1..Len(q.data.value) : q.data.value[i].id = q.snapshot.docs[i]
           /\ \A i \in 1..Len(q.data.value), j \in 1..Len(q.data.value) :
                i # j => q.data.value[i].id # q.data.value[j].id
      ELSE IF q.snapshot.exists
             THEN q.data.kind = "record" /\ q.data.value.id = q.snapshot.id
             ELSE q.data = NullData

\* C13: useDocument with no documentId (undefined, null or "") never reads
\* the store on any path, whatever enabled option the host's defaults and
\* the caller's own options give, and reports no data and never an error.
C13_AbsentIdNeverReads ==
  (q.hook = "useDocument" /\ Absent(q.documentId)) =>
    /\ rfn = "none" /\ rcalls = <<>> /\ rinflight = "none"
    /\ q.storeReads = 0
    /\ q.status # "error" /\ q.error = "none"
    /\ q.data \in {NoData, NullData}
    /\ errCalls = <<>>

C13_Witness ==
  /\ q.hook = "useDocument" /\ q.documentId = Null
  /\ env.defaultEnabled = <<FALSE>> /\ q.enabledOpt = <<TRUE>>
  /\ q.fetches = 1 /\ q.fetchStatus = "idle"
  /\ q.status = "success" /\ q.data = NullData /\ q.storeReads = 0

\* C14: every terminal failure of a hook operation has cfg.onError called
\* with the error and the context "<hookName>:<collectionName>".
C14_EveryFailureReachesHandler ==
  /\ (Rendered /\ q.status = "error") =>
       \E i \in 1..Len(errCalls) :
         errCalls[i] = [error |-> q.error, context |-> q.hook \o ":" \o q.col]
  /\ \A m \in active :
       mut[m].status = "error" =>
         \E i \in 1..Len(errCalls) :
           errCalls[i] = [error |-> mut[m].error,
                          context |-> mut[m].hook \o ":" \o mut[m].col]

\* C15: with no storage adapter configured and no platform storage, once
\* useCollection has recorded a read of collection C, getCollectionStats(C)
\* called without a storage reports the incremented readCount and a
\* lastFetched that is not null.
C15_StatsThroughMemoryFallback ==
  (/\ last.fn = "getCollectionStats" /\ last.ref = "mem"
   /\ ~env.storage /\ env.platform # "present"
   /\ q.hook = "useCollection" /\ q.recorded > 0 /\ last.col = q.col) =>
    /\ ~last.ret[1].readCount.nan
    /\ last.ret[1].readCount.val >= 1
    /\ last.ret[1].lastFetched # <<>>

\* C17: recordReadStats runs only for a hook whose query has succeeded,
\* never while the query is pending or failed, and once for a success at
\* most; a failed fetch leaves both statistics keys as they were.
C17_StatsOnlyAfterSuccess ==
  /\ \A i \in 1..Len(q.recordedWhile) : q.recordedWhile[i] = "success"
  /\ q.recorded <= q.succeeded
  /\ q.hook = "useDocument" => q.recorded = 0
  /\ LET st == StoreOf(safeStorage(env.storage, env.platform))
     IN safeStorage(env.storage, env.platform) # "mem" =>
          /\ getItem(st, ReadCountKey("todos")) =
               IF q.recorded = 0 THEN <<>> ELSE <<DecimalDigits(q.recorded)>>
          /\ (getItem(st, LastFetchedKey("todos")) = <<>>) = (q.recorded = 0)
  /\ q.recorded = 0 => hookMem = EmptyStore

C17_Witness ==
  /\ q.hook = "useCollection" /\ Rendered
  /\ q.fetches = 2 /\ q.succeeded = 1 /\ q.status = "error"
  /\ q.recorded = 1 /\ env.storage
  /\ getItem(custom, ReadCountKey("todos")) = <<<<"1">>>>
  /\ Len(errCalls) = 1


\* The record of document id of collection col, as the store held it before
\* any write hook ran.
RecordBefore(col, id) == [id |-> id] @@ InitialDb[col][id]

\* The entries the log collection of collection col holds.
LogEntries(col) ==
  {db[LogCollectionOf(cfg, col)][e] : e \in DOMAIN db[LogCollectionOf(cfg, col)]}

\* C22: update with enableLogging and includePreviousData on. When the
\* pre-update read succeeded, the audit entry written has previousData equal
\* to the record as it was before the update. When the pre-update read
\* failed, the failure went to logger.warn only, the update was still issued
\* and, acknowledged, makes the mutation a success, and the store is handed
\* and takes an audit entry that has no previousData.
C22_PreviousDataOrEntryWithoutIt ==
  \A m \in active :
    LET r == mut[m] IN
    (r.hook = "useUpdateDocument" /\ r.enableLogging /\ cfg.includePreviousData) =>
      /\ (r.preRead = "ok" /\ r.log = "ok") =>
           \E e \in LogEntries(r.col) :
             /\ e.action = "UPDATE" /\ e.originalDocId = r.id
             /\ "previousData" \in DOMAIN e
             /\ e.previousData = <<RecordBefore(r.col, r.id)>>
      /\ r.preRead = "error" =>
           /\ \E i \in 1..Len(warns) : warns[i] = "failed to fetch previous for logging"
           /\ r.primary # "none"
           /\ r.primary = "ok" =>
                /\ errCalls = <<>>
                /\ r.status # "error"
                /\ r.logThrown # "addDoc"
                /\ r.log = "ok" =>
                     \E e \in LogEntries(r.col) :
                       /\ e.action = "UPDATE" /\ e.originalDocId = r.id
                       /\ "previousData" \notin DOMAIN e

\* C23: delete issues the store deletion of the identifier it was given once
\* its pre-delete read has settled, whether that read found the document,
\* found nothing or threw; an acknowledged deletion leaves no document under
\* the identifier, and the value the mutation returns is the identifier.
C23_DeleteAlwaysAttempted ==
  \A m \in active :
    LET r == mut[m] IN
    r.hook = "useDeleteDocument" =>
      /\ r.preRead \in {"ok", "error"} =>
           /\ r.primary # "none"
           /\ \E i \in 1..Len(trace) : trace[i] = Ev(m, "primary:call")
      /\ r.preRead = "error" => (r.error = "none" \/ r.primary = "error")
      /\ r.primary = "ok" =>
           /\ r.id \notin DOMAIN db[r.col]
           /\ r.result = <<r.id>>
      /\ r.status = "success" => (r.primary = "ok" /\ r.result = <<r.id>>)

C23_Witness ==
  \E m \in active :
    /\ mut[m].hook = "useDeleteDocument" /\ mut[m].preRead = "error"
    /\ mut[m].id = "d1" /\ mut[m].status = "success"
    /\ mut[m].result = <<"d1">> /\ "d1" \notin DOMAIN db[mut[m].col]

\* What the pre-delete read of mutation r captured, by the claim: the record
\* as the store held it when the read found the document, null when the read
\* threw or the document did not exist.
CapturedBeforeDelete(r) ==
  IF r.preRead = "ok" /\ r.id \in DOMAIN InitialDb[r.col]
    THEN <<RecordBefore(r.col, r.id)>> ELSE <<>>

\* C24: delete with enableLogging on hands the store one audit entry, with
\* action DELETE, originalDocId the deleted identifier and deletedData the
\* record read before the deletion, or null when that read threw or found no
\* document; once the store took it, it is the one entry of the log collection.
C24_DeleteAuditEntry ==
  \A m \in active :
    LET r == mut[m] IN
    (r.hook = "useDeleteDocument" /\ r.enableLogging) =>
      /\ (r.primary = "ok" /\ r.logThrown = "none") => r.logEntry # <<>>
      /\ r.logEntry # <<>> =>
           /\ r.logEntry[1].action = "DELETE"
           /\ r.logEntry[1].originalDocId = r.id
           /\ r.logEntry[1].deletedData = CapturedBeforeDelete(r)
      /\ r.log = "ok" =>
           /\ LogEntries(r.col) = {r.logEntry[1]}
           /\ Cardinality(DOMAIN db[LogCollectionOf(cfg, r.col)]) = 1

C24_Witness ==
  \E m \in active :
    /\ mut[m].hook = "useDeleteDocument" /\ mut[m].enableLogging
    /\ mut[m].preRead = "ok" /\ mut[m].id = "d1" /\ mut[m].log = "ok"
    /\ \E e \in LogEntries(mut[m].col) :
         /\ e.action = "DELETE" /\ e.originalDocId = "d1"
         /\ e.deletedData = <<[id |-> "d1", title |-> "old"]>>

C26_MissingActorWarnedAndLogged ==
  \A m \in active :
    LET r == mut[m] IN
    (r.enableLogging /\ cfg.getUserId \in {Undefined, Null} /\ r.logEntry # <<>>) =>
      /\ r.logEntry[1].modifiedBy = Null
      /\ r.log = "ok" => \E e \in LogEntries(r.col) : e.modifiedBy = Null
      /\ \E i \in 1..Len(warns) : warns[i] = "logging enabled but no user id"

\* The kinds of answer a store read gives: rows / an existing document, no
\* rows / no document, or a failure.
OutcomeKinds == {"nonempty", "empty", "fail"}

KindOf(out) ==
  CASE out.status = "none" -> "none"
    [] out.status = "error" -> "fail"
    [] "docs" \in DOMAIN out.value ->
         IF Len(out.value.docs) = 0 THEN "empty" ELSE "nonempty"
    [] OTHER -> IF out.value.exists THEN "nonempty" ELSE "empty"

\* A query snapshot and a document snapshot of each kind.
RowsOfKind(kind) ==
  [src |-> "cache", docs |-> IF kind = "nonempty" THEN <<"d1">> ELSE <<>>]
DocumentOfKind(kind) ==
  [src |-> "cache", id |-> "d1", exists |-> (kind = "nonempty")]

\* The paths a resolver calls, in order, and the path and kind of the answer
\* it ends with, given its first path, what it does after the cache read,
\* and the kinds the cache, server and combined reads answer with.
Branching(first, afterCache, kc, ks, kd) ==
  CASE first = "sdk" -> [calls |-> <<"sdk">>, src |-> "sdk", kind |-> kd]
    [] first = "server" -> [calls |-> <<"server">>, src |-> "server", kind |-> ks]
    [] OTHER ->
         IF afterCache = "server"
           THEN [calls |-> <<"cache", "server">>, src |-> "server", kind |-> ks]
           ELSE [calls |-> <<"cache">>, src |-> "cache", kind |-> kc]

MultiRecordBranching(mode, kc, ks, kd) ==
  Branching(DocsFirstPath(mode),
            IF kc = "fail" THEN DocsAfterCacheThrow(mode)
            ELSE DocsAfterCacheReturn(mode, RowsOfKind(kc)),
            kc, ks, kd)

SingleRecordBranching(mode, kc, ks, kd) ==
  Branching(DocFirstPath(mode),
            IF kc = "fail" THEN DocAfterCacheThrow(mode)
            ELSE DocAfterCacheReturn(mode, DocumentOfKind(kc)),
            kc, ks, kd)

\* C27: getDocsByMode and getDocByMode branch alike. For every mode and all
\* kinds of answer of the cache, server and combined reads (no rows standing
\* for no document), both call the same paths in the same order and end with
\* the answer of the same path; and a call of either that has settled called
\* the paths, and ended with the kind of answer, that the other one's
\* branching gives for the answers it got.
C27_ResolversBranchAlike ==
  /\ \A mode \in Modes, kc \in OutcomeKinds, ks \in OutcomeKinds, kd \in OutcomeKinds :
       MultiRecordBranching(mode, kc, ks, kd) = SingleRecordBranching(mode, kc, ks, kd)
  /\ rpc = "done" =>
       LET other ==
             IF rfn = "getDocsByMode"
               THEN SingleRecordBranching(rmode, KindOf(rcacheOut), KindOf(rserverOut),
                                          KindOf(rsdkOut))
               ELSE MultiRecordBranching(rmode, KindOf(rcacheOut), KindOf(rserverOut),
                                         KindOf(rsdkOut))
       IN /\ rcalls = other.calls
          /\ rresult.src = other.src
          /\ KindOf(rresult) = other.kind

C27_Witness ==
  /\ rpc = "done" /\ rfn = "getDocByMode" /\ rmode = "cache-first"
  /\ KindOf(rcacheOut) = "empty" /\ KindOf(rserverOut) = "fail"
  /\ rcalls = <<"cache", "server">>
  /\ rcalls = MultiRecordBranching("cache-first", "empty", "fail", "none").calls
  /\ KindOf(rresult) = "fail"

\* The number of constraints the claim gives a descriptor: its filters, its
\* sorts, one for a limit and one for a cursor whose doc is not null.
ClaimedCount(o) ==
  IF o = <<>> THEN 0
  ELSE Len(Listed(o[1].where)) + Len(Listed(o[1].orderBy))
       + (IF o[1].limit # <<>> THEN 1 ELSE 0)
       + (IF o[1].cursor # <<>> /\ o[1].cursor[1].doc # <<>> THEN 1 ELSE 0)

\* The positional constraints among cs.
Positional(cs) == SelectSeq(cs, LAMBDA c : c.kind \in {"startAfter", "endBefore"})

\* What the claim says of the cursor: nothing for no descriptor, no cursor
\* or a cursor whose doc is null, else the one constraint of the cursor's type.
CursorAsClaimed(o, cs) ==
  IF o = <<>> \/ o[1].cursor = <<>> \/ o[1].cursor[1].doc = <<>>
    THEN Positional(cs) = <<>>
    ELSE Positional(cs) =
           <<[kind |-> IF o[1].cursor[1].type = "after" THEN "startAfter" ELSE "endBefore",
              doc |-> o[1].cursor[1].doc[1]]>>

\* C30 as claimed: buildConstraints returns, for every descriptor, as many
\* constraints as it has filters and sorts, plus one for a limit that is a
\* number (0 included) and one for a cursor whose doc is not null, of the
\* kind of the cursor's type.
C30_ConstraintCountAsClaimed ==
  \A n \in 1..Len(constraints) :
    /\ buildThrew[n] = "none"
    /\ Len(constraints[n]) = ClaimedCount(opts)
    /\ CursorAsClaimed(opts, constraints[n])

\* C30 as amended: that holds for every descriptor whose limit is left out or
\* positive; for a limit of 0 buildConstraints throws the store's
\* invalid-argument error, having pushed the filters and the sorts only.
C30_ConstraintCount ==
  \A n \in 1..Len(constraints) :
    IF opts # <<>> /\ opts[1].limit # <<>> /\ opts[1].limit[1] <= 0
      THEN /\ buildThrew[n] = "invalid-argument"
           /\ \A i \in 1..Len(constraints[n]) :
                constraints[n][i].kind \in {"where", "orderBy"}
      ELSE /\ buildThrew[n] = "none"
           /\ Len(constraints[n]) = ClaimedCount(opts)
           /\ CursorAsClaimed(opts, constraints[n])

C30_Witness ==
  /\ Len(constraints) >= 1 /\ buildThrew[1] = "none"
  /\ opts # <<>> /\ opts[1].limit = <<5>>
  /\ opts[1].cursor = <<[type |-> "after", doc |-> <<"d1">>]>>
  /\ Len(Listed(opts[1].where)) = 2 /\ Len(Listed(opts[1].orderBy)) = 1
  /\ Len(constraints[1]) = 5
  /\ constraints[1][5] = [kind |-> "startAfter", doc |-> "d1"]

\* The value of property name of object o, none when the property is not
\* there or is undefined.
PropertyOf(o, name) ==
  LET at == {i \in 1..Len(o.props) : o.props[i].n = name /\ o.props[i].v # UndefV}
  IN IF at = {} THEN <<>> ELSE <<o.props[CHOOSE i \in at : TRUE].v>>

\* An object by its properties alone, whatever order they were put in.
Unordered(o) ==
  [name \in {o.props[i].n : i \in 1..Len(o.props)} |-> PropertyOf(o, name)]

\* What a descriptor asks for: its clauses in order, its limit and its
\* cursor; a descriptor left out asks for what the empty one asks for.
Structure(options) ==
  LET o == OrDefault(options, ObjV(<<>>))
      clauses(name) ==
        IF PropertyOf(o, name) = <<>> THEN <<>>
        ELSE [i \in 1..Len(PropertyOf(o, name)[1].items) |->
                Unordered(PropertyOf(o, name)[1].items[i])]
  IN [where |-> clauses("where"),
      orderBy |-> clauses("orderBy"),
      limit |-> PropertyOf(o, "limit"),
      cursor |-> IF PropertyOf(o, "cursor") = <<>> THEN <<>>
                 ELSE <<Unordered(PropertyOf(o, "cursor")[1])>>]

\* C21: the query key of a collection read is [key prefix, "collection",
\* collection name, serialized descriptor]; two reads of one collection get
\* the same key when their descriptors ask for the same (same clauses, limit
\* and cursor, however the object was put together, no descriptor being the
\* empty one), and different keys when they do not.
C21_KeyIffSameDescriptor ==
  \A i \in 1..Len(keyCalls), j \in 1..Len(keyCalls) :
    LET a == keyCalls[i]
        b == keyCalls[j]
    IN /\ Len(a.key) = 4
       /\ a.key[1] = PrefixOf(cfg) /\ a.key[2] = "collection" /\ a.key[3] = a.col
       /\ (a.col = b.col /\ a.options = b.options) => a.key = b.key
       /\ a.col = b.col =>
            (a.key = b.key <=> Structure(a.options) = Structure(b.options))

\* The store fetches of the queries on collection col that succeeded.
RECURSIVE FetchedAmong(_)
FetchedAmong(ks) ==
  IF ks = {} THEN 0
  ELSE LET k == CHOOSE x \in ks : TRUE
       IN cache[k].fetched + FetchedAmong(ks \ {k})
FetchedOf(col) == FetchedAmong({k \in DOMAIN cache : k[3] = col})

\* C28: over one storage, the readCount of a collection is the number of
\* store fetches the collection read hooks made for it that succeeded: each
\* such fetch, the first of a query or a later one after an invalidation,
\* adds exactly 1, and nothing is added when no fetch took place, as for an
\* instance that is served the result already in the cache.
C28_ReadCountCountsFetches ==
  getCollectionStats(custom, "todos").readCount = Num(FetchedOf("todos"))

\* C29: the data an instance of the collection read hook holds has the shape
\* of its own withMeta flag, the records with their metadata when it is set
\* and the bare list of records when it is not, whichever instance's fetch
\* filled the query they share.
C29_ShapeFollowsOwnWithMeta ==
  \A h \in Instances :
    (obs[h].mounted /\ cache[obs[h].key].data # NoData) =>
      cache[obs[h].key].data.kind = IF obs[h].withMeta THEN "meta" ELSE "items"

\* The invalidate events mutation m has in the trace.
InvalidateEvents(m) == {i \in 1..Len(trace) : trace[i] = Ev(m, "invalidate")}

\* C31: a successful create called with invalidate: false invalidates
\* nothing, neither the collection's cached reads nor the log collection's,
\* enableLogging on or off; called with invalidate true or left out, every
\* successful create invalidates all the cached reads of the collection.
C31_InvalidateOptionGatesEverything ==
  \A m \in active :
    LET r == mut[m]
    IN (r.hook = "useAddDocument" /\ r.status = "success") =>
         IF r.invalidateOpt = <<FALSE>>
           THEN /\ r.inv = {}
                /\ invalidated = {}
                /\ InvalidateEvents(m) = {}
           ELSE /\ CollectionKeys(PrefixOf(cfg), r.col) # {}
                /\ CollectionKeys(PrefixOf(cfg), r.col) \subseteq r.inv
                /\ r.inv \subseteq invalidated
                /\ InvalidateEvents(m) # {}

C31_Witness ==
  \E m \in active :
    /\ mut[m].hook = "useAddDocument" /\ mut[m].status = "success"
    /\ mut[m].invalidateOpt = <<FALSE>>
    /\ mut[m].enableLogging /\ mut[m].log = "ok"
    /\ db[LogCollectionOf(cfg, mut[m].col)] # EmptyRec
    /\ invalidated = {}

RECURSIVE DocAfter(_, _, _)
DocAfter(col, id, n) ==
  IF n = 0 THEN InitialDb[col][id]
  ELSE LET e == trace[n]
           before == DocAfter(col, id, n - 1)
       IN IF /\ e.ev = "primary:ok"
             /\ mut[e.m].hook = "useUpdateDocument"
             /\ mut[e.m].col = col /\ mut[e.m].id = id
            THEN Spread(before, mut[e.m].payload)
            ELSE before

\* The record the document of mutation m was immediately before m's own
\* write was applied.
RecordBeforeOwnWrite(m) ==
  LET i == CHOOSE n \in 1..Len(trace) : trace[n] = Ev(m, "primary:ok")
  IN Spread([id |-> mut[m].id], DocAfter(mut[m].col, mut[m].id, i - 1))

\* The trace replayed gives the document the store holds.
DocAfterIsStored ==
  \A m \in active :
    mut[m].hook = "useUpdateDocument" =>
      DocAfter(mut[m].col, mut[m].id, Len(trace)) = db[mut[m].col][mut[m].id]

\* mutationFn of mutation m ran from the call of its pre-read to the
\* acknowledgement of its write with no step of another mutation in between.
NotInterleaved(m) ==
  \A i \in 1..Len(trace), j \in 1..Len(trace), n \in 1..Len(trace) :
    (/\ trace[i] = Ev(m, "preRead:call") /\ trace[j] = Ev(m, "primary:ok")
     /\ i < n /\ n < j) => trace[n].m = m

\* An UPDATE entry of mutation m, built after a pre-read that succeeded.
HasPreviousData(m) ==
  /\ mut[m].hook = "useUpdateDocument" /\ mut[m].enableLogging
  /\ cfg.includePreviousData
  /\ mut[m].preRead = "ok" /\ mut[m].primary = "ok"
  /\ mut[m].logEntry # <<>>

\* C33: when two updates of one document, enableLogging and
\* includePreviousData on, run interleaved, the previousData of each
\* update's audit entry is the record the document was immediately before
\* that update's own write was applied.
C33_PreviousDataIsStateBeforeOwnWrite ==
  \A m \in active :
    HasPreviousData(m) =>
      mut[m].logEntry[1].previousData = <<RecordBeforeOwnWrite(m)>>

\* C33 for the updates that were not interleaved with another.
C33_HoldsWhenNotInterleaved ==
  \A m \in active :
    (HasPreviousData(m) /\ NotInterleaved(m)) =>
      mut[m].logEntry[1].previousData = <<RecordBeforeOwnWrite(m)>>
====
